---------------------------- MODULE Spec2Model ----------------------------
(***************************************************************************)
(* A model of the spawn/combat coordination core of wayfinder-game:        *)
(* Monster (src/unnamed/part_000), Goblin, SpawnManager, Attack /          *)
(* AxeHackAttack and the Game scene.                                       *)
(*                                                                         *)
(* Lengths are pixels and times are milliseconds, as in the source, unless *)
(* a definition says otherwise.  The engine (Phaser: clock, tweens,        *)
(* physics, camera, random numbers) is the environment: its choices are    *)
(* drawn with \E from small sets.                                          *)
(*                                                                         *)
(* The module holds several specifications over the same variables, one    *)
(* per part of the program:                                                *)
(*   SpecPos     SpawnManager.getRandomSpawnPosition under a moving camera *)
(*   SpecMonster the public methods of Monster, called in any order        *)
(*   SpecSpawn   SpawnManager's schedules and repeating spawns on the      *)
(*               scene clock's timers                                      *)
(*   Spec        the Game scene frame by frame: the attack, the repeating  *)
(*               spawn, the collisions and the end of the session          *)
(***************************************************************************)
EXTENDS Integers, Sequences, FiniteSets, TLC

VARIABLES
    now,          \* the simulation clock (scene.time.now, the time of update)
    camera,       \* scene.cameras.main: [scrollX, scrollY, width, height]
    lastSpawn,    \* observation: the last getRandomSpawnPosition call and its result
    player,       \* the player sprite, the target of every monster:
                  \* its position [x, y] and velocity [vx, vy]
    mon,          \* the Monster objects ever constructed, by identity 1..Len(mon)
    gateLog,      \* observation: the canDealDamage calls made, <<[id, time, ok]>>
    sm,           \* the SpawnManager: monsters, monsterGroup, currentSchedule,
                  \* currentWaveIndex, scheduleTimer, repeatingSpawns
    timers,       \* scene.time: the timer events ever created, by identity
    run,          \* observation: the schedule last started and its wave executions
    keyFire,      \* observation: per repeating-spawn key, its last firing
    apiCalls,     \* observation: the number of SpawnManager methods called
    playerHealth, \* Game.playerHealth
    attack,       \* the AxeHackAttack of Game.attacks: lastAttackTime,
                  \* currentDirection, activeAttacks (slash identities)
    slashes,      \* the slash sprites ever created, by identity 1..Len(slashes)
    events,       \* observation: what gameOver did, in order
    hitLog,       \* observation: the takeDamage calls of checkAttackCollisions
    lastMove,     \* observation: the direction of the most recent nonzero
                  \* movement of the player, (1, 0) while it has never moved
    phase         \* the position in the frame: "engine" (clock, tweens, physics
                  \* call back) or "updated" (Game.update has run)

posVars == <<camera, lastSpawn>>
monVars == <<now, player, mon, gateLog>>
spawnVars == <<sm, timers, run, keyFire, apiCalls>>
gameVars == <<playerHealth, attack, slashes, events, hitLog, lastMove, phase>>
vars == <<now, camera, lastSpawn, player, mon, gateLog,
          sm, timers, run, keyFire, apiCalls,
          playerHealth, attack, slashes, events, hitLog, lastMove, phase>>

---------------------------------------------------------------------------
(* Arithmetic helpers                                                      *)

\* Math.max
Max(a, b) == IF a >= b THEN a ELSE b

\* Math.min
Min(a, b) == IF a <= b THEN a ELSE b

---------------------------------------------------------------------------
(* Program constants                                                       *)

WORLD_WIDTH == 3200
WORLD_HEIGHT == 2400
spawnPadding == 100

\* The viewport of the main camera.  The game configuration is not part of
\* the sources; Preloader centres its images on (512, 384), the middle of a
\* 1024 x 768 canvas.
CamWidth == 1024
CamHeight == 768

\* SpawnManager.worldWidth / worldHeight as Game.setupSpawning passes them
worldWidth == WORLD_WIDTH
worldHeight == WORLD_HEIGHT

---------------------------------------------------------------------------
(* SpawnManager.getRandomSpawnPosition                                     *)

\* Phaser.Math.Between(min, max): any integer of min..max
Between(min, max) == min .. max

\* The sample of Between(min, max) the model draws from: both ends, their
\* neighbours, the points one padding inside each end (the camera's own
\* edges when nothing was clamped), and the middle.
BetweenPicks(min, max) ==
    {v \in {min, min + 1, min + spawnPadding, (min + max) \div 2,
            max - spawnPadding, max - 1, max} : min <= v /\ v <= max}

camBounds(cam) ==
    [left   |-> cam.scrollX - spawnPadding,
     right  |-> cam.scrollX + cam.width + spawnPadding,
     top    |-> cam.scrollY - spawnPadding,
     bottom |-> cam.scrollY + cam.height + spawnPadding]

\* the arguments of the Phaser.Math.Between call of each side: x along the
\* top and bottom sides (0 and 2), y along the right and left ones (1 and 3)
SpawnRange(cam, side) ==
    IF side \in {0, 2}
    THEN [min |-> Max(0, camBounds(cam).left),
          max |-> Min(worldWidth, camBounds(cam).right)]
    ELSE [min |-> Max(0, camBounds(cam).top),
          max |-> Min(worldHeight, camBounds(cam).bottom)]

\* A slip: the pinned coordinate is the padded camera edge itself, not
\* clamped to the world.
getRandomSpawnPosition_NoClamp(cam, side, r) ==
    LET cb == camBounds(cam) IN
    CASE side = 0 -> [x |-> r, y |-> cb.top]
      [] side = 1 -> [x |-> cb.right, y |-> r]
      [] side = 2 -> [x |-> r, y |-> cb.bottom]
      [] OTHER    -> [x |-> cb.left, y |-> r]

\* side is the result of Between(0, 3) and r the result of the Between call
\* of that side's case.
getRandomSpawnPosition(cam, side, r) ==
    LET cb == camBounds(cam) IN
    CASE side = 0 -> [x |-> r, y |-> Max(0, cb.top)]
      [] side = 1 -> [x |-> Min(worldWidth, cb.right), y |-> r]
      [] side = 2 -> [x |-> r, y |-> Min(worldHeight, cb.bottom)]
      [] OTHER    -> [x |-> Max(0, cb.left), y |-> r]

---------------------------------------------------------------------------
(* SpecPos: spawn placement under a camera that Game keeps inside the world *)

NoSpawn == [side |-> -1]

\* camera.setBounds(0, 0, WORLD_WIDTH, WORLD_HEIGHT) keeps the viewport in
\* the world: 0 <= scrollX <= WORLD_WIDTH - width, the same for y.  The
\* model moves the camera between the ends of that range, the points within
\* one padding of them, and the middle (where the player starts).
CameraScrollXs ==
    LET hi == WORLD_WIDTH - CamWidth IN
    {0, spawnPadding \div 2, spawnPadding, hi \div 2,
     hi - spawnPadding, hi - spawnPadding \div 2, hi}

CameraScrollYs ==
    LET hi == WORLD_HEIGHT - CamHeight IN
    {0, spawnPadding \div 2, spawnPadding, hi \div 2,
     hi - spawnPadding, hi - spawnPadding \div 2, hi}

Camera(sx, sy) ==
    [scrollX |-> sx, scrollY |-> sy, width |-> CamWidth, height |-> CamHeight]

\* the camera centred on the player at the centre of the world
InitCamera ==
    Camera((WORLD_WIDTH - CamWidth) \div 2, (WORLD_HEIGHT - CamHeight) \div 2)

\* the player in the centre of the world (Game.create)
InitPlayer ==
    [x |-> WORLD_WIDTH \div 2, y |-> WORLD_HEIGHT \div 2, vx |-> 0, vy |-> 0]

\* the state both specifications of placement leave alone
InitPosVars ==
    /\ camera = InitCamera
    /\ lastSpawn = NoSpawn

\* no monster constructed yet, the clock at 0
InitMonVars ==
    /\ now = 0
    /\ player = InitPlayer
    /\ mon = <<>>
    /\ gateLog = <<>>

\* null (no schedule, no timer handle is 0)
Null == [null |-> TRUE]

\* the keys repeating spawns are registered under
Keys == {"goblins", "elites"}

\* a new SpawnManager on a scene clock without timers
InitSpawnVars ==
    /\ sm = [monsters |-> <<>>, monsterGroup |-> {},
             currentSchedule |-> Null, currentWaveIndex |-> 0,
             scheduleTimer |-> 0,
             repeatingSpawns |-> [k \in Keys |-> 0]]
    /\ timers = <<>>
    /\ run = [schedule |-> Null, start |-> 0, log |-> <<>>, stopped |-> TRUE]
    /\ keyFire = [k \in Keys |-> [time |-> -1, spawned |-> 0, timer |-> 0]]
    /\ apiCalls = 0

PLAYER_STARTING_HEALTH == 5

\* a new Attack: it has never fired and faces right
\* A slip: lastAttackTime starts one interval before clock value 0, so the
\* attack is ready at once.
InitAttack_ReadyAtOnce ==
    [lastAttackTime |-> -2000, currentDirection |-> [x |-> 1, y |-> 0],
     activeAttacks |-> <<>>]

InitAttack ==
    [lastAttackTime |-> 0, currentDirection |-> [x |-> 1, y |-> 0],
     activeAttacks |-> <<>>]

\* the Game scene after create(), no frame run yet
InitGameVars ==
    /\ playerHealth = PLAYER_STARTING_HEALTH
    /\ attack = InitAttack
    /\ slashes = <<>>
    /\ events = <<>>
    /\ hitLog = <<>>
    /\ lastMove = [x |-> 1, y |-> 0]
    /\ phase = "engine"

InitPos == InitPosVars /\ InitMonVars /\ InitSpawnVars /\ InitGameVars

\* the camera follows the player
MoveCamera ==
    /\ \E sx \in CameraScrollXs, sy \in CameraScrollYs :
          camera' = Camera(sx, sy)
    /\ lastSpawn' = NoSpawn
    /\ UNCHANGED <<monVars, spawnVars, gameVars>>

\* one call of getRandomSpawnPosition
GetRandomSpawnPosition ==
    /\ \E side \in Between(0, 3) :
         \E r \in BetweenPicks(SpawnRange(camera, side).min,
                             SpawnRange(camera, side).max) :
            LET p == getRandomSpawnPosition(camera, side, r) IN
            lastSpawn' = [side |-> side, x |-> p.x, y |-> p.y, cam |-> camera]
    /\ UNCHANGED camera
    /\ UNCHANGED <<monVars, spawnVars, gameVars>>

NextPos == MoveCamera \/ GetRandomSpawnPosition

SpecPos == InitPos /\ [][NextPos]_vars

\* the unpadded camera rectangle (the visible view), edges included
InsideCamera(x, y, cam) ==
    /\ cam.scrollX <= x /\ x <= cam.scrollX + cam.width
    /\ cam.scrollY <= y /\ y <= cam.scrollY + cam.height

\* the camera rectangle padded by spawnPadding covers the full world
PaddedCoversWorld(cam) ==
    /\ camBounds(cam).left <= 0 /\ camBounds(cam).right >= worldWidth
    /\ camBounds(cam).top <= 0 /\ camBounds(cam).bottom >= worldHeight

\* C3: whenever the padded camera rectangle does not cover the full world,
\* the position getRandomSpawnPosition returns lies outside the unpadded
\* camera rectangle, also when the camera touches a world edge or corner.
C3_SpawnOutsideCameraView ==
    (lastSpawn # NoSpawn /\ ~PaddedCoversWorld(lastSpawn.cam))
        => ~InsideCamera(lastSpawn.x, lastSpawn.y, lastSpawn.cam)

\* C4: for every camera viewport inside the world and every random choice,
\* getRandomSpawnPosition returns 0 <= x <= worldWidth, 0 <= y <= worldHeight.
C4_SpawnWithinWorld ==
    lastSpawn # NoSpawn =>
        /\ 0 <= lastSpawn.x /\ lastSpawn.x <= worldWidth
        /\ 0 <= lastSpawn.y /\ lastSpawn.y <= worldHeight

\* C4 witness: a spawn on the left side with the camera at the world's left
\* edge, where the padded edge (-100) was clamped to 0.
C4_Witness_ClampedAtWorldEdge ==
    /\ lastSpawn # NoSpawn
    /\ lastSpawn.side = 3
    /\ lastSpawn.cam.scrollX = 0
    /\ lastSpawn.x = 0

---------------------------------------------------------------------------
(* Monster (src/unnamed/part_000) and Goblin                               *)
(*                                                                         *)
(* A Monster is a record: its config, currentHealth, lastAttackTime,       *)
(* isAlive, and of its sprite the position (x, y), the velocity, whether   *)
(* it is active (false once sprite.destroy() ran) and the time the death   *)
(* tween completes (deathDue, -1 when no death tween runs).  A velocity is *)
(* [dx, dy, speed]: the vector of length speed in the direction of         *)
(* (dx, dy), so (dx / distance) * speed needs no square root.  Tints, flips *)
(* and the alpha / scale the death tween animates are presentation and are *)
(* left out.                                                               *)

DEFAULT_GOBLIN_CONFIG ==
    [maxHealth |-> 50, speed |-> 80, damage |-> 10,
     knockbackForce |-> 200, attackCooldown |-> 1000]

\* duration of the death tween
DeathTweenDuration == 200

NoVelocity == [dx |-> 0, dy |-> 0, speed |-> 0]

\* { ...defaults, ...overrides }
Merge(defaults, overrides) ==
    [k \in DOMAIN defaults |->
        IF k \in DOMAIN overrides THEN overrides[k] ELSE defaults[k]]

\* new Monster(scene, x, y, target, config)
Monster(x, y, config) ==
    [config |-> config,
     currentHealth |-> config.maxHealth,
     lastAttackTime |-> 0,
     isAlive |-> TRUE,
     x |-> x, y |-> y, vel |-> NoVelocity,
     active |-> TRUE,
     deathDue |-> -1]

\* new Goblin(scene, x, y, target, config)
Goblin(x, y, config) == Monster(x, y, Merge(DEFAULT_GOBLIN_CONFIG, config))

moveTowardsTarget(m, target) ==
    LET dx == target.x - m.x
        dy == target.y - m.y
    IN  IF dx * dx + dy * dy > 0
        THEN [m EXCEPT !.vel = [dx |-> dx, dy |-> dy, speed |-> m.config.speed]]
        ELSE m

\* Monster.update
MonsterUpdate(m, target) ==
    IF ~m.isAlive \/ ~m.active THEN m ELSE moveTowardsTarget(m, target)

\* A slip: the knockback points at the target instead of away from it.
applyKnockback_TowardsTarget(m, target) ==
    LET dx == target.x - m.x
        dy == target.y - m.y
    IN  IF dx * dx + dy * dy > 0
        THEN [m EXCEPT !.vel = [dx |-> dx, dy |-> dy,
                                speed |-> m.config.knockbackForce]]
        ELSE m

\* Monster.applyKnockback
applyKnockback(m, target) ==
    LET dx == m.x - target.x
        dy == m.y - target.y
    IN  IF dx * dx + dy * dy > 0
        THEN [m EXCEPT !.vel = [dx |-> dx, dy |-> dy,
                                speed |-> m.config.knockbackForce]]
        ELSE m

\* Monster.die at clock value time: the death tween completes
\* DeathTweenDuration later and then calls destroy()
die(m, time) ==
    [m EXCEPT !.isAlive = FALSE, !.deathDue = time + DeathTweenDuration]

\* A slip: the death test is < 0, so a hit that leaves exactly 0 does not kill.
takeDamage_StrictlyBelowZero(m, amount, target, time) ==
    IF ~m.isAlive THEN m
    ELSE LET hit == applyKnockback(
                        [m EXCEPT !.currentHealth = m.currentHealth - amount],
                        target)
         IN  IF hit.currentHealth < 0 THEN die(hit, time) ELSE hit

\* A slip: the amount is added to currentHealth.
takeDamage_Heals(m, amount, target, time) ==
    IF ~m.isAlive THEN m
    ELSE LET hit == applyKnockback(
                        [m EXCEPT !.currentHealth = m.currentHealth + amount],
                        target)
         IN  IF hit.currentHealth <= 0 THEN die(hit, time) ELSE hit

\* A slip: takeDamage does not test isAlive.
takeDamage_NoAliveCheck(m, amount, target, time) ==
    LET hit == applyKnockback(
                   [m EXCEPT !.currentHealth = m.currentHealth - amount],
                   target)
    IN  IF hit.currentHealth <= 0 THEN die(hit, time) ELSE hit

\* Monster.takeDamage(amount), with the player at target and the clock at time
takeDamage(m, amount, target, time) ==
    IF ~m.isAlive THEN m
    ELSE LET hit == applyKnockback(
                        [m EXCEPT !.currentHealth = m.currentHealth - amount],
                        target)
         IN  IF hit.currentHealth <= 0 THEN die(hit, time) ELSE hit

\* A slip: the gate does not stamp lastAttackTime.
canDealDamage_NoStamp(m, time) ==
    IF time - m.lastAttackTime >= m.config.attackCooldown
    THEN [ok |-> TRUE, m |-> m]
    ELSE [ok |-> FALSE, m |-> m]

\* A slip: the gate opens only after more than attackCooldown.
canDealDamage_StrictlyAfter(m, time) ==
    IF time - m.lastAttackTime > m.config.attackCooldown
    THEN [ok |-> TRUE, m |-> [m EXCEPT !.lastAttackTime = time]]
    ELSE [ok |-> FALSE, m |-> m]

\* Monster.canDealDamage(time): the value returned (ok) and the monster after
canDealDamage(m, time) ==
    IF time - m.lastAttackTime >= m.config.attackCooldown
    THEN [ok |-> TRUE, m |-> [m EXCEPT !.lastAttackTime = time]]
    ELSE [ok |-> FALSE, m |-> m]

getDamage(m) == m.config.damage

getIsAlive(m) == m.isAlive

\* Monster.destroy: also ends the death tween's hold on the sprite
MonsterDestroy(m) ==
    [m EXCEPT !.isAlive = FALSE, !.active = FALSE, !.deathDue = -1]

---------------------------------------------------------------------------
(* SpecMonster: any client calling the public methods of a few goblins     *)

\* most monsters constructed
MaxUnitMonsters == 1
\* the clock stops at
MaxUnitTime == 2000
\* most canDealDamage calls observed
MaxGateCalls == 2

\* the clock's steps between two calls
UnitDeltas == {500, 1000}

\* the config overrides a goblin is constructed with: none (the defaults),
\* or a goblin that two hits of 20 leave at exactly 0 and that may deal
\* damage twice as often
GoblinOverrides ==
    {<<>>, [maxHealth |-> 40, attackCooldown |-> 500]}

\* where a goblin is constructed: on the player, or beside it
UnitPositions(target) ==
    {[x |-> target.x, y |-> target.y],
     [x |-> target.x + 40, y |-> target.y]}

\* the amounts takeDamage is called with
DamageAmounts == {0, 20}

InitMonster == InitPosVars /\ InitMonVars /\ InitSpawnVars /\ InitGameVars

NewGoblinM ==
    /\ Len(mon) < MaxUnitMonsters
    /\ \E p \in UnitPositions(player), c \in GoblinOverrides :
          mon' = Append(mon, Goblin(p.x, p.y, c))
    /\ UNCHANGED <<now, player, gateLog, posVars, spawnVars, gameVars>>

UpdateM ==
    /\ \E id \in DOMAIN mon :
          mon' = [mon EXCEPT ![id] = MonsterUpdate(mon[id], player)]
    /\ UNCHANGED <<now, player, gateLog, posVars, spawnVars, gameVars>>

TakeDamageM ==
    /\ \E id \in DOMAIN mon, amount \in DamageAmounts :
          mon' = [mon EXCEPT ![id] = takeDamage(mon[id], amount, player, now)]
    /\ UNCHANGED <<now, player, gateLog, posVars, spawnVars, gameVars>>

CanDealDamageM ==
    /\ Len(gateLog) < MaxGateCalls
    /\ \E id \in DOMAIN mon :
          LET r == canDealDamage(mon[id], now) IN
          /\ mon' = [mon EXCEPT ![id] = r.m]
          /\ gateLog' = Append(gateLog, [id |-> id, time |-> now, ok |-> r.ok])
    /\ UNCHANGED <<now, player, posVars, spawnVars, gameVars>>

DestroyM ==
    /\ \E id \in DOMAIN mon :
          mon' = [mon EXCEPT ![id] = MonsterDestroy(mon[id])]
    /\ UNCHANGED <<now, player, gateLog, posVars, spawnVars, gameVars>>

\* the death tween of a monster completes: onComplete calls destroy()
DeathTweenCompleteM ==
    /\ \E id \in DOMAIN mon :
          /\ mon[id].deathDue >= 0
          /\ mon[id].deathDue <= now
          /\ mon' = [mon EXCEPT ![id] = MonsterDestroy(mon[id])]
    /\ UNCHANGED <<now, player, gateLog, posVars, spawnVars, gameVars>>

\* the next frame: the clock moves on once every death tween that has run
\* its time has completed
AdvanceTimeM ==
    /\ \A id \in DOMAIN mon : ~(mon[id].deathDue >= 0 /\ mon[id].deathDue <= now)
    /\ \E d \in UnitDeltas :
          /\ now + d <= MaxUnitTime
          /\ now' = now + d
    /\ UNCHANGED <<player, mon, gateLog, posVars, spawnVars, gameVars>>

NextMonster ==
    \/ NewGoblinM
    \/ UpdateM
    \/ TakeDamageM
    \/ CanDealDamageM
    \/ DestroyM
    \/ DeathTweenCompleteM
    \/ AdvanceTimeM

SpecMonster == InitMonster /\ [][NextMonster]_vars

\* C5: a monster is alive iff its currentHealth is still > 0 (it stops being
\* alive in the takeDamage call that first brings currentHealth to 0 or
\* below; a monster whose sprite destroy() has released is not alive either),
\* and a monster that is not alive never becomes alive again.
C5_AliveIffHealthPositive ==
    /\ [](\A id \in DOMAIN mon :
            mon[id].isAlive <=> (mon[id].active /\ mon[id].currentHealth > 0))
    /\ [][\A id \in DOMAIN mon : ~mon[id].isAlive => ~mon'[id].isAlive]_vars

\* C5 witness: a goblin of maxHealth 50 after three hits of 20 (50, 30, 10,
\* -10): dead on the third hit, its death tween still running.
C5_Witness_DeadOnThirdHit ==
    \E id \in DOMAIN mon :
        /\ mon[id].config.maxHealth = 50
        /\ mon[id].currentHealth = -10
        /\ ~mon[id].isAlive
        /\ mon[id].active

\* C6: currentHealth never exceeds maxHealth, and no operation increases the
\* currentHealth of a constructed monster (damage amounts are >= 0).
C6_HealthBoundedNonIncreasing ==
    /\ [](\A id \in DOMAIN mon :
            mon[id].currentHealth <= mon[id].config.maxHealth)
    /\ [][\A id \in DOMAIN mon :
            mon'[id].currentHealth <= mon[id].currentHealth]_vars

\* C6 witness: a monster that took damage and lives on below its maxHealth.
C6_Witness_DamagedAlive ==
    \E id \in DOMAIN mon :
        /\ mon[id].isAlive
        /\ mon[id].currentHealth < mon[id].config.maxHealth

\* C7: of two canDealDamage calls of one monster less than attackCooldown
\* apart at most one returns true; so two successful gates of one monster
\* are at least attackCooldown apart.
C7_CooldownGate ==
    \A i, j \in DOMAIN gateLog :
        (/\ i < j
         /\ gateLog[i].id = gateLog[j].id
         /\ gateLog[j].time - gateLog[i].time
               < mon[gateLog[i].id].config.attackCooldown)
        => ~(gateLog[i].ok /\ gateLog[j].ok)

\* C7 witness: a gate passed, and a later gate of the same monster refused
\* because the clock had moved on by less than attackCooldown.
C7_Witness_SecondCallRefused ==
    \E i, j \in DOMAIN gateLog :
        /\ i < j
        /\ gateLog[i].id = gateLog[j].id
        /\ gateLog[i].ok /\ ~gateLog[j].ok
        /\ gateLog[j].time > gateLog[i].time
        /\ gateLog[j].time - gateLog[i].time
              < mon[gateLog[i].id].config.attackCooldown

---------------------------------------------------------------------------
(* SpawnManager on the scene clock                                         *)
(*                                                                         *)
(* The operators work on a world w = [mon, sm, timers]: the Monster        *)
(* objects, the SpawnManager's fields and the clock's timer events.  A     *)
(* timer event is [due, delay, loop, cb, live]: the clock value at which   *)
(* it fires next, and whether it can still fire (not destroyed, and not a  *)
(* one-shot event that has fired).  cb names the callback it was created   *)
(* with and what that closure captured.  A timer handle is the event's     *)
(* index in timers, 0 for null.                                            *)

World == [mon |-> mon, sm |-> sm, timers |-> timers]

SetWorld(w) ==
    /\ mon' = w.mon
    /\ sm' = w.sm
    /\ timers' = w.timers

\* scene.time.delayedCall(delay, cb) at clock value time
delayedCall(w, delay, cb, time) ==
    [w EXCEPT !.timers = Append(@, [due |-> time + delay, delay |-> delay,
                                    loop |-> FALSE, cb |-> cb, live |-> TRUE])]

\* scene.time.addEvent({delay, callback, loop: true}) at clock value time
addEvent(w, delay, cb, time) ==
    [w EXCEPT !.timers = Append(@, [due |-> time + delay, delay |-> delay,
                                    loop |-> TRUE, cb |-> cb, live |-> TRUE])]

\* TimerEvent.destroy(): the event never calls back again
timerDestroy(w, t) == [w EXCEPT !.timers[t].live = FALSE]

\* the handle of the event created last
lastTimer(w) == Len(w.timers)

\* A slip: an unknown type falls back to a goblin.
spawnMonster_DefaultGoblin(w, type, config, cam, d) ==
    LET pos == getRandomSpawnPosition(cam, d.side, d.r)
        id == Len(w.mon) + 1
    IN  [w EXCEPT !.mon = Append(@, Goblin(pos.x, pos.y, config)),
                  !.sm.monsters = Append(@, id),
                  !.sm.monsterGroup = @ \cup {id}]

\* SpawnManager.spawnMonster(type, config) with the random draw d = [side, r]
\* of getRandomSpawnPosition
spawnMonster(w, type, config, cam, d) ==
    LET pos == getRandomSpawnPosition(cam, d.side, d.r)
        id == Len(w.mon) + 1
    IN  IF type = "goblin"
        THEN [w EXCEPT !.mon = Append(@, Goblin(pos.x, pos.y, config)),
                       !.sm.monsters = Append(@, id),
                       !.sm.monsterGroup = @ \cup {id}]
        ELSE w

\* what spawnMonster returns for the world w1 it leaves from w: the monster
\* pushed last (a reference to it), or null
spawnMonsterReturn(w, w1) ==
    IF Len(w1.sm.monsters) > Len(w.sm.monsters)
    THEN [monster |-> w1.sm.monsters[Len(w1.sm.monsters)]]
    ELSE Null

\* for (let i = 0; i < count; i++) spawnMonster(type, config)
RECURSIVE spawnCount(_, _, _, _, _, _)
spawnCount(w, type, config, count, cam, d) ==
    IF count <= 0 THEN w
    ELSE spawnCount(spawnMonster(w, type, config, cam, d),
                    type, config, count - 1, cam, d)

\* SpawnManager.executeWave: the spawn events of the wave from index i on
RECURSIVE executeWaveFrom(_, _, _, _, _)
executeWaveFrom(w, spawns, i, cam, d) ==
    IF i > Len(spawns) THEN w
    ELSE executeWaveFrom(
             spawnCount(w, spawns[i].monsterType, spawns[i].config,
                        spawns[i].count, cam, d),
             spawns, i + 1, cam, d)

executeWave(w, wave, cam, d) == executeWaveFrom(w, wave.spawns, 1, cam, d)

\* A slip: stopSchedule forgets the timer without destroying it.
stopSchedule_KeepsTimer(w) ==
    [w EXCEPT !.sm.scheduleTimer = 0, !.sm.currentSchedule = Null]

\* SpawnManager.stopSchedule
stopSchedule(w) ==
    LET w1 == IF w.sm.scheduleTimer # 0
              THEN [timerDestroy(w, w.sm.scheduleTimer)
                        EXCEPT !.sm.scheduleTimer = 0]
              ELSE w
    IN  [w1 EXCEPT !.sm.currentSchedule = Null]

\* schedule.loop, an optional field
loopOf(schedule) == "loop" \in DOMAIN schedule /\ schedule.loop

\* schedule.loopDelay || 0
loopDelayOf(schedule) ==
    IF "loopDelay" \in DOMAIN schedule THEN schedule.loopDelay ELSE 0

\* A slip: the restart of a looping schedule does not wait for loopDelay.
executeNextWave_RestartAtOnce(w, time) ==
    LET s == w.sm.currentSchedule IN
    IF s = Null THEN w
    ELSE IF w.sm.currentWaveIndex >= Len(s.waves)
    THEN IF loopOf(s)
         THEN LET w1 == delayedCall([w EXCEPT !.sm.currentWaveIndex = 0],
                                    0, [kind |-> "restart"], time)
              IN  [w1 EXCEPT !.sm.scheduleTimer = lastTimer(w1)]
         ELSE w
    ELSE LET wave == s.waves[w.sm.currentWaveIndex + 1]
             w1 == delayedCall(w, wave.delay,
                               [kind |-> "wave", wave |-> wave], time)
         IN  [w1 EXCEPT !.sm.scheduleTimer = lastTimer(w1)]

\* SpawnManager.executeNextWave at clock value time.  currentWaveIndex counts
\* from 0 as in the source; waves is a sequence indexed from 1.
executeNextWave(w, time) ==
    LET s == w.sm.currentSchedule IN
    IF s = Null THEN w
    ELSE IF w.sm.currentWaveIndex >= Len(s.waves)
    THEN IF loopOf(s)
         THEN LET w1 == delayedCall([w EXCEPT !.sm.currentWaveIndex = 0],
                                    loopDelayOf(s), [kind |-> "restart"], time)
              IN  [w1 EXCEPT !.sm.scheduleTimer = lastTimer(w1)]
         ELSE w
    ELSE LET wave == s.waves[w.sm.currentWaveIndex + 1]
             w1 == delayedCall(w, wave.delay,
                               [kind |-> "wave", wave |-> wave], time)
         IN  [w1 EXCEPT !.sm.scheduleTimer = lastTimer(w1)]

\* SpawnManager.startSchedule
startSchedule(w, schedule, time) ==
    executeNextWave(
        [stopSchedule(w) EXCEPT !.sm.currentSchedule = schedule,
                                !.sm.currentWaveIndex = 0],
        time)

\* A slip: the wave callback does not advance currentWaveIndex.
waveCallback_NoAdvance(w, wave, cam, d, time) ==
    executeNextWave(executeWave(w, wave, cam, d), time)

\* the callback of a wave's timer (executeNextWave, lines 106-110)
waveCallback(w, wave, cam, d, time) ==
    executeNextWave(
        [executeWave(w, wave, cam, d) EXCEPT !.sm.currentWaveIndex = @ + 1],
        time)

\* the callback of a loop restart's timer (line 97)
restartCallback(w, time) == executeNextWave(w, time)

\* SpawnManager.removeRepeatingSpawn
removeRepeatingSpawn(w, id) ==
    LET timer == w.sm.repeatingSpawns[id] IN
    IF timer # 0
    THEN [timerDestroy(w, timer) EXCEPT !.sm.repeatingSpawns[id] = 0]
    ELSE w

\* A slip: the timer already registered under the key is not removed.
addRepeatingSpawn_NoRemove(w, id, config, time) ==
    LET w1 == addEvent(w, config.interval,
                       [kind |-> "repeat", key |-> id, config |-> config], time)
    IN  [w1 EXCEPT !.sm.repeatingSpawns[id] = lastTimer(w1)]

\* SpawnManager.addRepeatingSpawn.  The callback's closure holds config; key
\* is kept with it for the observations only.
addRepeatingSpawn(w, id, config, time) ==
    LET w1 == addEvent(removeRepeatingSpawn(w, id), config.interval,
                       [kind |-> "repeat", key |-> id, config |-> config], time)
    IN  [w1 EXCEPT !.sm.repeatingSpawns[id] = lastTimer(w1)]

\* the callback of a repeating spawn's timer (lines 128-132)
repeatCallback(w, config, cam, d) ==
    spawnCount(w, config.monsterType, config.config, config.count, cam, d)

\* SpawnManager.stopAllRepeatingSpawns: removeRepeatingSpawn for every key
\* of the map (deleting the entry being visited does not end a Map's iteration)
RECURSIVE removeKeys(_, _)
removeKeys(w, ks) ==
    IF ks = {} THEN w
    ELSE LET k == CHOOSE x \in ks : TRUE
         IN  removeKeys(removeRepeatingSpawn(w, k), ks \ {k})

stopAllRepeatingSpawns(w) ==
    removeKeys(w, {k \in Keys : w.sm.repeatingSpawns[k] # 0})

\* SpawnManager.clearAllMonsters; a destroyed sprite leaves its group
clearAllMonsters(w) ==
    LET listed == {w.sm.monsters[i] : i \in DOMAIN w.sm.monsters} IN
    [w EXCEPT !.mon = [id \in DOMAIN w.mon |->
                          IF id \in listed THEN MonsterDestroy(w.mon[id])
                          ELSE w.mon[id]],
              !.sm.monsters = <<>>,
              !.sm.monsterGroup = @ \ listed]

\* A slip: destroy() forgets the repeating spawns.
SpawnManagerDestroy_KeepsRepeating(w) ==
    clearAllMonsters(stopSchedule(w))

\* SpawnManager.destroy
SpawnManagerDestroy(w) ==
    clearAllMonsters(stopAllRepeatingSpawns(stopSchedule(w)))

---------------------------------------------------------------------------
(* SpecSpawn: a client calling startSchedule, stopSchedule,                *)
(* addRepeatingSpawn, removeRepeatingSpawn and destroy while the scene     *)
(* clock runs the timers.  A timer calls back at the clock value           *)
(* registration + delay; the clock is observed every SchedTick ms, and all *)
(* delays are multiples of it.                                             *)

\* the clock's step
SchedTick == 5000
\* the clock stops at
MaxSchedTime == 25000
\* most monsters spawned
MaxSpawned == 6
\* most timer events created
MaxTimers == 6
\* most SpawnManager methods called by the client
MaxApiCalls == 2

SpawnEvent(count) == [monsterType |-> "goblin", count |-> count, config |-> <<>>]

\* the schedules started: the looping one of the scenario (waves after 0 and
\* 5000 ms, restart after 15000 ms; the second wave has two spawn events), a
\* non-looping one whose second wave follows at once, and a looping one
\* without loopDelay
Schedules ==
    {[waves |-> <<[delay |-> 0, spawns |-> <<SpawnEvent(1)>>],
                  [delay |-> 5000, spawns |-> <<SpawnEvent(1), SpawnEvent(1)>>]>>,
      loop |-> TRUE, loopDelay |-> 15000],
     [waves |-> <<[delay |-> 5000, spawns |-> <<SpawnEvent(1)>>],
                  [delay |-> 0, spawns |-> <<SpawnEvent(2)>>]>>],
     [waves |-> <<[delay |-> 5000, spawns |-> <<SpawnEvent(1)>>]>>,
      loop |-> TRUE]}

\* the repeating spawns registered: Game's (one goblin every 5000 ms), and
\* two goblins every 10000 ms
RepeatConfigs ==
    {[monsterType |-> "goblin", interval |-> 5000, count |-> 1, config |-> <<>>],
     [monsterType |-> "goblin", interval |-> 10000, count |-> 2, config |-> <<>>]}

\* the random draw of every spawn here: the left side, its topmost point
SchedDraw(cam) == [side |-> 3, r |-> SpawnRange(cam, 3).min]

InitSpawn == InitPosVars /\ InitMonVars /\ InitSpawnVars /\ InitGameVars

\* the caps of the model
WithinCaps(w) == Len(w.mon) <= MaxSpawned /\ Len(w.timers) <= MaxTimers

StartScheduleS ==
    /\ apiCalls < MaxApiCalls
    /\ \E s \in Schedules :
          LET w == startSchedule(World, s, now) IN
          /\ WithinCaps(w)
          /\ SetWorld(w)
          /\ run' = [schedule |-> s, start |-> now, log |-> <<>>,
                     stopped |-> FALSE]
    /\ apiCalls' = apiCalls + 1
    /\ UNCHANGED <<now, player, gateLog, keyFire, posVars, gameVars>>

StopScheduleS ==
    /\ apiCalls < MaxApiCalls
    /\ SetWorld(stopSchedule(World))
    /\ run' = [run EXCEPT !.stopped = TRUE]
    /\ apiCalls' = apiCalls + 1
    /\ UNCHANGED <<now, player, gateLog, keyFire, posVars, gameVars>>

AddRepeatingSpawnS ==
    /\ apiCalls < MaxApiCalls
    /\ \E k \in Keys, c \in RepeatConfigs :
          LET w == addRepeatingSpawn(World, k, c, now) IN
          /\ WithinCaps(w)
          /\ SetWorld(w)
    /\ apiCalls' = apiCalls + 1
    /\ UNCHANGED <<now, player, gateLog, run, keyFire, posVars, gameVars>>

RemoveRepeatingSpawnS ==
    /\ apiCalls < MaxApiCalls
    /\ \E k \in Keys : SetWorld(removeRepeatingSpawn(World, k))
    /\ apiCalls' = apiCalls + 1
    /\ UNCHANGED <<now, player, gateLog, run, keyFire, posVars, gameVars>>

\* destroy() ends the use of the SpawnManager: it may follow the last of the
\* other calls
DestroyS ==
    /\ apiCalls <= MaxApiCalls
    /\ SetWorld(SpawnManagerDestroy(World))
    /\ run' = [run EXCEPT !.stopped = TRUE]
    /\ apiCalls' = apiCalls + 1
    /\ UNCHANGED <<now, player, gateLog, keyFire, posVars, gameVars>>

\* the spawnMonster calls of the client: the known type with config
\* overrides, and a type the switch does not know
SpawnCalls ==
    {[type |-> "goblin", config |-> [maxHealth |-> 40, attackCooldown |-> 500]],
     [type |-> "orc", config |-> <<>>]}

\* the client calls spawnMonster(type, config) itself
SpawnMonsterS ==
    /\ apiCalls < MaxApiCalls
    /\ \E call \in SpawnCalls :
          LET type == call.type
              c == call.config
              d == SchedDraw(camera)
              w == spawnMonster(World, type, c, camera, d)
              pos == getRandomSpawnPosition(camera, d.side, d.r)
          IN  /\ WithinCaps(w)
              /\ SetWorld(w)
              /\ lastSpawn' = [side |-> d.side, x |-> pos.x, y |-> pos.y,
                               cam |-> camera, type |-> type, config |-> c,
                               call |-> apiCalls + 1,
                               returned |-> spawnMonsterReturn(World, w)]
    /\ apiCalls' = apiCalls + 1
    /\ UNCHANGED <<now, player, gateLog, run, keyFire, camera, gameVars>>

\* a timer event that calls back now
Due(t) == timers[t].live /\ timers[t].due <= now

\* the world as the clock hands it to the callback of t: a one-shot event
\* is spent, a looping one waits for its next delay
Fired(t) ==
    IF timers[t].loop
    THEN [World EXCEPT !.timers[t].due = @ + timers[t].delay]
    ELSE [World EXCEPT !.timers[t].live = FALSE]

\* the timer of a wave fires
FireWave ==
    /\ \E t \in DOMAIN timers :
          /\ Due(t)
          /\ timers[t].cb.kind = "wave"
          /\ LET w == waveCallback(Fired(t), timers[t].cb.wave, camera,
                                   SchedDraw(camera), now)
             IN  /\ WithinCaps(w)
                 /\ SetWorld(w)
                 /\ run' = [run EXCEPT !.log = Append(@,
                                [index |-> sm.currentWaveIndex, time |-> now,
                                 spawned |-> Len(w.mon) - Len(mon)])]
    /\ UNCHANGED <<now, player, gateLog, keyFire, apiCalls, posVars, gameVars>>

\* the timer of a loop restart fires
FireRestart ==
    /\ \E t \in DOMAIN timers :
          /\ Due(t)
          /\ timers[t].cb.kind = "restart"
          /\ LET w == restartCallback(Fired(t), now)
             IN  /\ WithinCaps(w)
                 /\ SetWorld(w)
    /\ UNCHANGED <<now, player, gateLog, run, keyFire, apiCalls, posVars, gameVars>>

\* the timer of a repeating spawn fires
FireRepeating ==
    /\ \E t \in DOMAIN timers :
          /\ Due(t)
          /\ timers[t].cb.kind = "repeat"
          /\ LET w == repeatCallback(Fired(t), timers[t].cb.config, camera,
                                     SchedDraw(camera))
                 k == timers[t].cb.key
                 n == Len(w.mon) - Len(mon)
             IN  /\ WithinCaps(w)
                 /\ SetWorld(w)
                 /\ keyFire' = [keyFire EXCEPT ![k] =
                        [time |-> now, timer |-> t,
                         spawned |-> IF @.time = now THEN @.spawned + n ELSE n]]
    /\ UNCHANGED <<now, player, gateLog, run, apiCalls, posVars, gameVars>>

\* the clock moves on once every timer due has called back
AdvanceTimeS ==
    /\ \A t \in DOMAIN timers : ~Due(t)
    /\ now + SchedTick <= MaxSchedTime
    /\ now' = now + SchedTick
    /\ UNCHANGED <<player, mon, gateLog, spawnVars, posVars, gameVars>>

NextSpawn ==
    \/ StartScheduleS
    \/ StopScheduleS
    \/ AddRepeatingSpawnS
    \/ RemoveRepeatingSpawnS
    \/ DestroyS
    \/ SpawnMonsterS
    \/ FireWave
    \/ FireRestart
    \/ FireRepeating
    \/ AdvanceTimeS

SpecSpawn == InitSpawn /\ [][NextSpawn]_vars

\* the timer events that can still call back
LiveTimers == {t \in DOMAIN timers : timers[t].live}

\* the live timers of repeating spawns registered under key k
LiveTimersOf(k) ==
    {t \in LiveTimers : timers[t].cb.kind = "repeat" /\ timers[t].cb.key = k}

\* C8: every key has at most one live timer, the one registered under it;
\* a firing of the key spawns exactly the count of that timer's config (the
\* counts of earlier registrations do not add up); and re-registering a key
\* cancels exactly the timer registered under it and installs exactly one.
C8_OneTimerPerKey ==
    /\ [](\A k \in Keys :
            /\ LiveTimersOf(k) =
                  IF sm.repeatingSpawns[k] # 0 THEN {sm.repeatingSpawns[k]}
                  ELSE {}
            /\ keyFire[k].time >= 0 =>
                  keyFire[k].spawned = timers[keyFire[k].timer].cb.config.count)
    /\ [][\A k \in Keys :
            (/\ sm.repeatingSpawns[k] # 0
             /\ sm'.repeatingSpawns[k] # 0
             /\ sm'.repeatingSpawns[k] # sm.repeatingSpawns[k])
            => /\ sm'.repeatingSpawns[k] \notin DOMAIN timers
               /\ LiveTimers' = (LiveTimers \ {sm.repeatingSpawns[k]})
                                    \cup {sm'.repeatingSpawns[k]}]_vars

\* C8 witness: a key registered twice with different counts has fired since:
\* the first timer is dead and the firing spawned the second config's count.
C8_Witness_ReRegisteredKeyFired ==
    \E k \in Keys, t \in DOMAIN timers :
        /\ ~timers[t].live
        /\ timers[t].cb.kind = "repeat"
        /\ timers[t].cb.key = k
        /\ sm.repeatingSpawns[k] # 0
        /\ keyFire[k].timer = sm.repeatingSpawns[k]
        /\ timers[sm.repeatingSpawns[k]].cb.config.count # timers[t].cb.config.count

\* the sum of the delays of waves 1..i of schedule s
RECURSIVE DelaySum(_, _)
DelaySum(s, i) == IF i = 0 THEN 0 ELSE DelaySum(s, i - 1) + s.waves[i].delay

\* the length of one cycle of a looping schedule
CycleLength(s) == DelaySum(s, Len(s.waves)) + loopDelayOf(s)

\* the clock value at which the j-th wave execution (j = 1, 2, ...) of a
\* schedule started at start is due: wave (j-1) % n of cycle (j-1) \div n
ExpectedTime(s, start, j) ==
    start + ((j - 1) \div Len(s.waves)) * CycleLength(s)
          + DelaySum(s, ((j - 1) % Len(s.waves)) + 1)

\* the number of wave executions a schedule makes at most
ExpectedCount(s) == IF loopOf(s) THEN MaxSpawned + 1 ELSE Len(s.waves)

\* C9: wave i of cycle k of a schedule started at time start executes at
\* start + k * (d0 + ... + dn-1 + loopDelay) + (d0 + ... + di), and, until
\* the schedule is stopped, at every such time that has passed: the waves
\* execute at these times and at no other.
C9_WaveTimes ==
    run.schedule # Null =>
        /\ \A j \in DOMAIN run.log :
              /\ j <= ExpectedCount(run.schedule)
              /\ run.log[j].index = (j - 1) % Len(run.schedule.waves)
              /\ run.log[j].time = ExpectedTime(run.schedule, run.start, j)
        /\ ~run.stopped =>
              \A j \in 1 .. ExpectedCount(run.schedule) :
                  ExpectedTime(run.schedule, run.start, j) < now
                      => j <= Len(run.log)

\* C9 witness: the scenario.  Waves after 0 and 5000 ms, loopDelay 15000,
\* started at 0 and run for 25000 ms: executions at 0, 5000, 20000, 25000.
C9_Witness_Scenario ==
    /\ run.schedule # Null
    /\ loopOf(run.schedule)
    /\ loopDelayOf(run.schedule) = 15000
    /\ run.start = 0
    /\ now = 25000
    /\ [j \in DOMAIN run.log |-> run.log[j].time] = <<0, 5000, 20000, 25000>>

\* the number of monsters a wave spawns: the sum of its spawn counts
RECURSIVE CountSum(_, _)
CountSum(spawns, i) ==
    IF i = 0 THEN 0 ELSE CountSum(spawns, i - 1) + spawns[i].count

\* the timer of the schedule is pending
SchedulePending == sm.scheduleTimer # 0 /\ timers[sm.scheduleTimer].live

\* C10: the waves of a schedule execute one at a time in index order, each
\* spawning the sum of its spawn counts; a non-looping schedule executes
\* each wave once and is idle from then on; a looping schedule wraps to wave
\* 0 and, until stopSchedule or destroy, always has its next wave or restart
\* pending, due within the longest delay of the schedule; a stopped
\* schedule has nothing pending.
C10_WavesInOrder ==
    run.schedule # Null =>
        LET s == run.schedule
            n == Len(s.waves)
        IN  /\ \A j \in DOMAIN run.log :
                  /\ run.log[j].index =
                        IF j = 1 THEN 0 ELSE (run.log[j - 1].index + 1) % n
                  /\ run.log[j].spawned =
                        CountSum(s.waves[run.log[j].index + 1].spawns,
                                 Len(s.waves[run.log[j].index + 1].spawns))
            /\ ~loopOf(s) =>
                  /\ Len(run.log) <= n
                  /\ Len(run.log) = n => ~SchedulePending
                  /\ (~run.stopped /\ Len(run.log) < n) => SchedulePending
            /\ (loopOf(s) /\ ~run.stopped) =>
                  /\ SchedulePending
                  /\ timers[sm.scheduleTimer].due >= now
                  /\ timers[sm.scheduleTimer].due - now <= CycleLength(s)
            /\ run.stopped =>
                  \A t \in LiveTimers : timers[t].cb.kind = "repeat"

\* C10 witness: a looping schedule that has executed all its waves and,
\* after its loopDelay, wave 0 again.
C10_Witness_LoopRestarted ==
    /\ run.schedule # Null
    /\ loopOf(run.schedule)
    /\ ~run.stopped
    /\ Len(run.log) > Len(run.schedule.waves)
    /\ run.log[Len(run.log)].index = 0

\* the live timers of the schedule (waves and loop restarts)
LiveScheduleTimers ==
    {t \in LiveTimers : timers[t].cb.kind \in {"wave", "restart"}}

\* the monsters listed in the live set
Listed == {sm.monsters[i] : i \in DOMAIN sm.monsters}

\* C11: a destroy() step leaves no timer that can call back, no repeating
\* spawn and no schedule timer registered and the live set empty, and every
\* monster that was in the live set is not alive; and while no timer can
\* call back, a step that is not a call of the client spawns no monster and
\* creates no timer, so nothing spawns after destroy() until the client
\* registers something again.
C11_DestroyStopsSpawning ==
    /\ [][DestroyS =>
            /\ LiveTimers' = {}
            /\ sm'.scheduleTimer = 0
            /\ sm'.currentSchedule = Null
            /\ \A k \in Keys : sm'.repeatingSpawns[k] = 0
            /\ sm'.monsters = <<>>
            /\ sm'.monsterGroup \cap Listed = {}
            /\ \A id \in Listed : ~mon'[id].isAlive]_vars
    /\ [][(LiveTimers = {} /\ apiCalls' = apiCalls) =>
            (Len(mon') = Len(mon) /\ LiveTimers' = {})]_vars

\* C11 witness: destroy() was called as the third call, on a looping
\* schedule and a repeating spawn; the repeating spawn's next firing has
\* been due since and did not happen, and the monsters spawned are gone.
C11_Witness_DestroyedMix ==
    /\ apiCalls = MaxApiCalls + 1
    /\ run.schedule # Null
    /\ loopOf(run.schedule)
    /\ LiveTimers = {}
    /\ \E t \in DOMAIN timers :
          timers[t].cb.kind = "repeat" /\ timers[t].due < now
    /\ Len(mon) > 0
    /\ sm.monsters = <<>>
    /\ \A id \in DOMAIN mon : ~mon[id].isAlive

\* C12: at most one schedule timer is pending, the one held in
\* scheduleTimer, and only while a schedule is current; a step that stops
\* the schedule or starts one leaves none of the earlier schedule timers
\* alive, so no wave and no loop restart of the stopped schedule executes
\* later; and stopSchedule is idempotent.
C12_NoDanglingCallback ==
    /\ [](/\ Cardinality(LiveScheduleTimers) <= 1
          /\ LiveScheduleTimers # {} =>
                /\ LiveScheduleTimers = {sm.scheduleTimer}
                /\ sm.currentSchedule # Null
                /\ ~run.stopped
                /\ sm.currentSchedule = run.schedule
          /\ stopSchedule(stopSchedule(World)) = stopSchedule(World))
    /\ [][(StopScheduleS \/ StartScheduleS \/ DestroyS) =>
            \A t \in DOMAIN timers :
                timers[t].cb.kind \in {"wave", "restart"} => ~timers'[t].live]_vars
    /\ [][\A t \in DOMAIN timers :
            (timers[t].cb.kind \in {"wave", "restart"} /\ ~timers[t].live)
                => ~timers'[t].live]_vars

\* C12 witness: a running schedule was replaced by another one.  A schedule
\* timer registered before the start of the current schedule was due after
\* it, is dead, and its time has passed; the current schedule has executed.
C12_Witness_ReplacedSchedule ==
    /\ run.schedule # Null
    /\ ~run.stopped
    /\ Len(run.log) > 0
    /\ \E t \in DOMAIN timers :
          /\ timers[t].cb.kind \in {"wave", "restart"}
          /\ ~timers[t].live
          /\ timers[t].due - timers[t].delay < run.start
          /\ timers[t].due > run.start
          /\ timers[t].due < now

---------------------------------------------------------------------------
(* Attack, AxeHackAttack and the Game scene                                *)
(*                                                                         *)
(* The operators work on a game g: the world of the SpawnManager operators *)
(* with the player, playerHealth, the attack, the slash sprites and the    *)
(* observations.  A slash sprite is [x, y, active, data, dir, born,        *)
(* swinging]: its position, whether destroy() has not run, the keys of its *)
(* data manager, the direction it was created in, the clock value at its   *)
(* creation, and whether the swing tween still runs.                       *)

PLAYER_SPEED == 200
hitRange == 40

\* A slip: the duration passed is longer than the interval.
AXE_HACK_CONFIG_LongDuration ==
    [damage |-> 25, interval |-> 2000, duration |-> 2400,
     offsetDistance |-> 35, swingArc |-> 120, swingSpeed |-> 250]

\* the config Game.setupAttacks passes, over DEFAULT_AXE_HACK_CONFIG
AXE_HACK_CONFIG ==
    [damage |-> 25, interval |-> 2000, duration |-> 400,
     offsetDistance |-> 35, swingArc |-> 120, swingSpeed |-> 250]

\* the repeating spawn Game.setupSpawning registers under "goblins"
GOBLINS_SPAWN ==
    [monsterType |-> "goblin", interval |-> 5000, count |-> 1, config |-> <<>>]

Abs(v) == IF v < 0 THEN -v ELSE v

\* Math.sqrt(x * x + y * y): exact when the vector lies on an axis, the
\* integer part otherwise
Length(x, y) ==
    IF y = 0 THEN Abs(x)
    ELSE IF x = 0 THEN Abs(y)
    ELSE CHOOSE n \in 0 .. (Abs(x) + Abs(y)) :
            n * n <= x * x + y * y /\ (n + 1) * (n + 1) > x * x + y * y

Game ==
    [mon |-> mon, sm |-> sm, timers |-> timers, player |-> player,
     playerHealth |-> playerHealth, attack |-> attack, slashes |-> slashes,
     events |-> events, hitLog |-> hitLog]

SetGame(g) ==
    /\ mon' = g.mon
    /\ sm' = g.sm
    /\ timers' = g.timers
    /\ player' = g.player
    /\ playerHealth' = g.playerHealth
    /\ attack' = g.attack
    /\ slashes' = g.slashes
    /\ events' = g.events
    /\ hitLog' = g.hitLog

\* whether spawning can still act: a spawn timer that can call back, or a
\* monster still listed
SpawningActive(g) ==
    \/ \E t \in DOMAIN g.timers :
          g.timers[t].live /\ g.timers[t].cb.kind \in {"wave", "restart", "repeat"}
    \/ g.sm.monsters # <<>>

\* A slip: the scene is switched without the spawn manager being destroyed.
gameOver_NoDestroy(g) ==
    [g EXCEPT !.events = Append(@, [op |-> "scene.start",
                                    spawning |-> SpawningActive(g)])]

\* Game.gameOver
gameOver(g) ==
    LET g1 == [SpawnManagerDestroy(g) EXCEPT
                  !.events = Append(@, [op |-> "spawnManager.destroy",
                                        spawning |-> SpawningActive(g)])]
    IN  [g1 EXCEPT !.events = Append(@, [op |-> "scene.start",
                                         spawning |-> SpawningActive(g1)])]

\* Game.takeDamage(amount)
GameTakeDamage(g, amount) ==
    LET g1 == [g EXCEPT !.playerHealth = @ - amount]
    IN  IF g1.playerHealth <= 0 THEN gameOver(g1) ELSE g1

\* A slip: the handler does not test getIsAlive().
handleMonsterPlayerCollision_NoAliveCheck(g, id, time) ==
    LET r == canDealDamage(g.mon[id], time)
        g1 == [g EXCEPT !.mon[id] = r.m]
    IN  IF r.ok THEN GameTakeDamage(g1, getDamage(r.m)) ELSE g1

\* Game.handleMonsterPlayerCollision for the sprite of monster id, the clock
\* at time
handleMonsterPlayerCollision(g, id, time) ==
    IF getIsAlive(g.mon[id])
    THEN LET r == canDealDamage(g.mon[id], time)
             g1 == [g EXCEPT !.mon[id] = r.m]
         IN  IF r.ok THEN GameTakeDamage(g1, getDamage(r.m)) ELSE g1
    ELSE g

\* A slip: a zero vector resets the facing to the default direction.
updateDirection_ZeroResets(a, velocityX, velocityY) ==
    IF velocityX # 0 \/ velocityY # 0
    THEN LET length == Length(velocityX, velocityY)
         IN  [a EXCEPT !.currentDirection =
                 [x |-> velocityX \div length, y |-> velocityY \div length]]
    ELSE [a EXCEPT !.currentDirection = [x |-> 1, y |-> 0]]

\* Attack.updateDirection
updateDirection(a, velocityX, velocityY) ==
    IF velocityX # 0 \/ velocityY # 0
    THEN LET length == Length(velocityX, velocityY)
         IN  [a EXCEPT !.currentDirection =
                 [x |-> velocityX \div length, y |-> velocityY \div length]]
    ELSE a

\* AxeHackAttack.execute at clock value time, with destroyAttackAfterDuration
execute(g, time) ==
    LET dir == g.attack.currentDirection
        s == Len(g.slashes) + 1
        slash == [x |-> g.player.x + dir.x * AXE_HACK_CONFIG.offsetDistance,
                  y |-> g.player.y + dir.y * AXE_HACK_CONFIG.offsetDistance,
                  active |-> TRUE, data |-> {}, dir |-> dir,
                  born |-> time, swinging |-> TRUE]
        g1 == [g EXCEPT !.slashes = Append(@, slash),
                        !.attack.activeAttacks = Append(@, s)]
    IN  delayedCall(g1, AXE_HACK_CONFIG.duration,
                    [kind |-> "destroyAttack", slash |-> s], time)

\* A slip: firing does not stamp lastAttackTime.
AttackUpdate_NoStamp(g, time) ==
    IF time - g.attack.lastAttackTime >= AXE_HACK_CONFIG.interval
    THEN execute(g, time)
    ELSE g

\* Attack.update(time)
AttackUpdate(g, time) ==
    IF time - g.attack.lastAttackTime >= AXE_HACK_CONFIG.interval
    THEN [execute(g, time) EXCEPT !.attack.lastAttackTime = time]
    ELSE g

\* sprite.destroy(): the sprite is inactive, its tweens are gone and its
\* data manager is released; nothing reads its position again
DestroyedSprite ==
    [x |-> 0, y |-> 0, active |-> FALSE, data |-> {},
     dir |-> [x |-> 0, y |-> 0], born |-> 0, swinging |-> FALSE]

\* index = list.indexOf(s); if (index > -1) list.splice(index, 1)
RemoveFirst(list, s) ==
    IF \E i \in DOMAIN list : list[i] = s
    THEN LET index == CHOOSE i \in DOMAIN list :
                         list[i] = s /\ \A j \in 1 .. (i - 1) : list[j] # s
         IN  SubSeq(list, 1, index - 1) \o SubSeq(list, index + 1, Len(list))
    ELSE list

\* A slip: the sprite is destroyed but stays in activeAttacks.
destroyAttackCallback_NoRemove(g, s) ==
    [g EXCEPT !.slashes[s] = DestroyedSprite]

\* the callback of destroyAttackAfterDuration for slash s
destroyAttackCallback(g, s) ==
    [g EXCEPT !.attack.activeAttacks = RemoveFirst(@, s),
              !.slashes[s] = DestroyedSprite]

\* The offset of a slash facing right from the player, elapsed ms into the
\* swing tween: offsetDistance * (cos r, sin r), rounded to pixels, for the
\* rotation r = -60 + 120 * e degrees, e = 1 - (1 - p)^2 (Quad.easeOut) and
\* p = elapsed / swingSpeed.  100 ms: r = 16.8, 200 ms: r = 55.2, from
\* 250 ms on: r = 60.
SwingOffset(elapsed) ==
    IF elapsed < 150 THEN [x |-> 34, y |-> 10]
    ELSE IF elapsed < AXE_HACK_CONFIG.swingSpeed THEN [x |-> 20, y |-> 29]
    ELSE [x |-> 18, y |-> 30]

\* onUpdate of the swing tween of slash sl, the player at p and the clock at
\* time: the offset turned into the direction the slash was created in
swingUpdate(sl, p, time) ==
    LET o == SwingOffset(time - sl.born) IN
    [sl EXCEPT !.x = p.x + o.x * sl.dir.x - o.y * sl.dir.y,
               !.y = p.y + o.x * sl.dir.y + o.y * sl.dir.x,
               !.swinging = time - sl.born < AXE_HACK_CONFIG.swingSpeed]

\* A slip: the list is pruned in place during a forward iteration, so the
\* entry after a removed one is skipped.
RECURSIVE pruneInPlace(_, _)
pruneInPlace(g, i) ==
    IF i > Len(g.sm.monsters) THEN g
    ELSE LET id == g.sm.monsters[i] IN
         IF ~getIsAlive(g.mon[id])
         THEN pruneInPlace(
                  [g EXCEPT !.sm.monsters = SubSeq(@, 1, i - 1)
                                               \o SubSeq(@, i + 1, Len(@))],
                  i + 1)
         ELSE pruneInPlace(
                  [g EXCEPT !.mon[id] = MonsterUpdate(g.mon[id], g.player)],
                  i + 1)

SpawnManagerUpdate_InPlace(g) == pruneInPlace(g, 1)

\* A slip: the monsters that are not alive are skipped but stay in the list.
SpawnManagerUpdate_NoPrune(g) ==
    [g EXCEPT !.mon = [id \in DOMAIN g.mon |->
                          IF \E i \in DOMAIN g.sm.monsters : g.sm.monsters[i] = id
                          THEN MonsterUpdate(g.mon[id], g.player)
                          ELSE g.mon[id]]]

\* SpawnManager.update: drop the monsters that are not alive from the list,
\* update the others
SpawnManagerUpdate(g) ==
    LET alive == SelectSeq(g.sm.monsters, LAMBDA id : getIsAlive(g.mon[id]))
        listed == {alive[i] : i \in DOMAIN alive}
    IN  [g EXCEPT !.sm.monsters = alive,
                  !.mon = [id \in DOMAIN g.mon |->
                              IF id \in listed
                              THEN MonsterUpdate(g.mon[id], g.player)
                              ELSE g.mon[id]]]

\* `${attackSprite.getData("id") || attackSprite.x}_${monster.getSprite().x}`:
\* no code sets the data key "id", so the key is made of the two x positions
hitKey(sl, m) == <<sl.x, m.x>>

\* the body of the innermost loop of checkAttackCollisions: slash s, monster id
checkHit(g, s, id, time) ==
    LET sl == g.slashes[s]
        m == g.mon[id]
        dx == sl.x - m.x
        dy == sl.y - m.y
    IN  IF ~getIsAlive(m) THEN g
        ELSE IF ~m.active THEN g
        ELSE IF dx * dx + dy * dy < hitRange * hitRange
                /\ hitKey(sl, m) \notin sl.data
        THEN [g EXCEPT !.slashes[s].data = @ \cup {hitKey(sl, m)},
                       !.mon[id] = takeDamage(m, AXE_HACK_CONFIG.damage,
                                              g.player, time),
                       !.hitLog = Append(@, [slash |-> s, monster |-> id,
                                             time |-> time])]
        ELSE g

\* for (const monster of monsters), from index j on
RECURSIVE checkMonsters(_, _, _, _, _)
checkMonsters(g, s, monsters, j, time) ==
    IF j > Len(monsters) THEN g
    ELSE checkMonsters(checkHit(g, s, monsters[j], time), s, monsters,
                       j + 1, time)

\* for (const attackSprite of activeAttacks), from index i on
RECURSIVE checkSlashes(_, _, _, _)
checkSlashes(g, active, i, time) ==
    IF i > Len(active) THEN g
    ELSE IF ~g.slashes[active[i]].active
    THEN checkSlashes(g, active, i + 1, time)
    ELSE checkSlashes(checkMonsters(g, active[i], g.sm.monsters, 1, time),
                      active, i + 1, time)

\* Game.checkAttackCollisions
checkAttackCollisions(g, time) ==
    checkSlashes(g, g.attack.activeAttacks, 1, time)

\* A slip: combat resolution runs first, before the attacks and the spawn
\* manager are updated.
GameUpdate_CollisionsFirst(g, input, time) ==
    LET velocityX == input.x * PLAYER_SPEED
        velocityY == input.y * PLAYER_SPEED
        g1 == [g EXCEPT !.player.vx = velocityX, !.player.vy = velocityY]
        g2 == checkAttackCollisions(g1, time)
        g3 == IF velocityX # 0 \/ velocityY # 0
              THEN [g2 EXCEPT !.attack = updateDirection(@, velocityX, velocityY)]
              ELSE g2
    IN  SpawnManagerUpdate(AttackUpdate(g3, time))

\* Game.update(time) with the keys held: input is [x, y], each -1, 0 or 1
GameUpdate(g, input, time) ==
    LET velocityX == input.x * PLAYER_SPEED
        velocityY == input.y * PLAYER_SPEED
        diagonal == velocityX # 0 /\ velocityY # 0
        scale == Length(velocityX, velocityY)
        g1 == [g EXCEPT
                 !.player.vx = IF diagonal
                               THEN (velocityX * PLAYER_SPEED) \div scale
                               ELSE velocityX,
                 !.player.vy = IF diagonal
                               THEN (velocityY * PLAYER_SPEED) \div scale
                               ELSE velocityY]
        g2 == IF velocityX # 0 \/ velocityY # 0
              THEN [g1 EXCEPT !.attack = updateDirection(@, velocityX, velocityY)]
              ELSE g1
    IN  checkAttackCollisions(SpawnManagerUpdate(AttackUpdate(g2, time)), time)

---------------------------------------------------------------------------
(* Spec: the Game scene, frame by frame.  A frame is: the clock moves on   *)
(* by FrameDelta and the engine moves every body along its velocity and    *)
(* steps the swing tweens (AdvanceTime); the timers and tweens that are    *)
(* due call back and the physics world reports overlaps (in any order);    *)
(* Game.update runs.  Once gameOver has started the GameOver scene, the    *)
(* frame under way is finished and no further frame of this scene runs.    *)
(*                                                                         *)
(* The keys held are none, left or right, and every goblin is spawned on   *)
(* the left or right side at the height of the player, so every body moves *)
(* along one horizontal line and all positions are exact.  The camera is   *)
(* centred on the player (the lag of its follow is left out).              *)

\* the time between two frames
FrameDelta == 100
\* the clock stops at
MaxGameTime == 12400
\* how far the player walks from where it starts, in frames of walking
MaxTravelSteps == 1

\* the keys held during a frame
Inputs == {[x |-> 0, y |-> 0], [x |-> 1, y |-> 0], [x |-> -1, y |-> 0]}

\* the distance a body of the given speed covers in one frame
FrameStep(speed) == (speed * FrameDelta) \div 1000

\* the random draws of a spawn: the right or the left side, at the height
\* of the player
GameDraws(p) == {[side |-> 1, r |-> p.y], [side |-> 3, r |-> p.y]}

\* the camera following the player, kept inside the camera bounds
Follow(p) ==
    Camera(Max(0, Min(WORLD_WIDTH - CamWidth, p.x - CamWidth \div 2)),
           Max(0, Min(WORLD_HEIGHT - CamHeight, p.y - CamHeight \div 2)))

\* the physics step of a body at (x, y) with velocity vel = [dx, dy, speed]
MoveBody(m) ==
    IF m.vel.speed = 0 \/ ~m.active THEN m
    ELSE LET dist == Length(m.vel.dx, m.vel.dy) IN
         [m EXCEPT !.x = @ + (m.vel.dx * FrameStep(m.vel.speed)) \div dist,
                   !.y = @ + (m.vel.dy * FrameStep(m.vel.speed)) \div dist]

\* the physics step of the player, which collides with the world bounds
MovePlayer(p) ==
    [p EXCEPT !.x = Max(0, Min(WORLD_WIDTH, @ + (p.vx * FrameDelta) \div 1000)),
              !.y = Max(0, Min(WORLD_HEIGHT, @ + (p.vy * FrameDelta) \div 1000))]

\* Game.create: the attack is set up and the repeating spawn registered
Init ==
    /\ InitPosVars
    /\ InitMonVars
    /\ InitGameVars
    /\ \E w \in {addRepeatingSpawn(
                    [mon |-> <<>>,
                     sm |-> [monsters |-> <<>>, monsterGroup |-> {},
                             currentSchedule |-> Null, currentWaveIndex |-> 0,
                             scheduleTimer |-> 0,
                             repeatingSpawns |-> [k \in Keys |-> 0]],
                     timers |-> <<>>],
                    "goblins", GOBLINS_SPAWN, 0)} :
          /\ sm = w.sm
          /\ timers = w.timers
    /\ run = [schedule |-> Null, start |-> 0, log |-> <<>>, stopped |-> TRUE]
    /\ keyFire = [k \in Keys |-> [time |-> -1, spawned |-> 0, timer |-> 0]]
    /\ apiCalls = 0

\* a timer or a death tween is due
CallbackDue ==
    \/ \E t \in DOMAIN timers : Due(t)
    \/ \E id \in DOMAIN mon : mon[id].deathDue >= 0 /\ mon[id].deathDue <= now

\* the game as the clock hands it to the callback of timer t
GameFired(t) ==
    IF timers[t].loop
    THEN [Game EXCEPT !.timers[t].due = @ + timers[t].delay]
    ELSE [Game EXCEPT !.timers[t].live = FALSE]

\* the next frame begins
AdvanceTime ==
    /\ phase = "updated"
    /\ events = <<>>
    /\ now + FrameDelta <= MaxGameTime
    /\ now' = now + FrameDelta
    /\ player' = MovePlayer(player)
    /\ camera' = Follow(player')
    /\ mon' = [id \in DOMAIN mon |-> MoveBody(mon[id])]
    /\ slashes' = [s \in DOMAIN slashes |->
                      IF slashes[s].active /\ slashes[s].swinging
                      THEN swingUpdate(slashes[s], player', now')
                      ELSE slashes[s]]
    /\ phase' = "engine"
    /\ UNCHANGED <<lastSpawn, gateLog, spawnVars, playerHealth, attack,
                   events, hitLog, lastMove>>

\* the timer of the repeating spawn fires
SpawnTimerFires ==
    /\ phase = "engine"
    /\ \E t \in DOMAIN timers :
          /\ Due(t)
          /\ timers[t].cb.kind = "repeat"
          /\ \E d \in GameDraws(player) :
                SetGame(repeatCallback(GameFired(t), timers[t].cb.config,
                                       camera, d))
    /\ UNCHANGED <<now, gateLog, run, keyFire, apiCalls, posVars, lastMove,
                   phase>>

\* the timer of destroyAttackAfterDuration fires
DestroyAttackTimerFires ==
    /\ phase = "engine"
    /\ \E t \in DOMAIN timers :
          /\ Due(t)
          /\ timers[t].cb.kind = "destroyAttack"
          /\ SetGame(destroyAttackCallback(GameFired(t), timers[t].cb.slash))
    /\ UNCHANGED <<now, gateLog, run, keyFire, apiCalls, posVars, lastMove,
                   phase>>

\* the death tween of a monster completes: onComplete calls destroy(), and
\* the destroyed sprite leaves the monster group
DeathTweenComplete ==
    /\ phase = "engine"
    /\ \E id \in DOMAIN mon :
          /\ mon[id].deathDue >= 0
          /\ mon[id].deathDue <= now
          /\ mon' = [mon EXCEPT ![id] = MonsterDestroy(mon[id])]
          /\ sm' = [sm EXCEPT !.monsterGroup = @ \ {id}]
    /\ UNCHANGED <<now, player, gateLog, timers, run, keyFire, apiCalls,
                   posVars, gameVars>>

\* the physics world reports the sprite of a monster overlapping the player
\* (whichever sprite: the handler tests the monster itself)
Overlap ==
    /\ phase = "engine"
    /\ \E id \in DOMAIN mon :
          SetGame(handleMonsterPlayerCollision(Game, id, now))
    /\ UNCHANGED <<now, gateLog, run, keyFire, apiCalls, posVars, lastMove,
                   phase>>

\* Game.update(now), once every callback due has run
Update ==
    /\ phase = "engine"
    /\ ~CallbackDue
    /\ \E input \in Inputs :
          /\ Abs(player.x + input.x * FrameStep(PLAYER_SPEED) - InitPlayer.x)
                <= MaxTravelSteps * FrameStep(PLAYER_SPEED)
          /\ SetGame(GameUpdate(Game, input, now))
          /\ lastMove' = IF input.x # 0 \/ input.y # 0 THEN input ELSE lastMove
    /\ phase' = "updated"
    /\ UNCHANGED <<now, gateLog, run, keyFire, apiCalls, posVars>>

Next ==
    \/ AdvanceTime
    \/ SpawnTimerFires
    \/ DestroyAttackTimerFires
    \/ DeathTweenComplete
    \/ Overlap
    \/ Update

Spec == Init /\ [][Next]_vars

\* C1: a slash (an effect instance) damages a given monster at most once
\* over its lifetime: no two takeDamage calls of checkAttackCollisions are
\* for the same slash and the same monster.
C1_AtMostOneHitPerSlashAndMonster ==
    \A i, j \in DOMAIN hitLog :
        (hitLog[i].slash = hitLog[j].slash
            /\ hitLog[i].monster = hitLog[j].monster) => i = j

\* C2: gameOver runs exactly once per session, in the takeDamage call that
\* first brings playerHealth to 0 or below, and never again: while
\* playerHealth is above 0 nothing of gameOver has happened, and from then on
\* exactly one spawnManager.destroy() followed by one scene.start("GameOver")
\* has, spawning being deactivated (no spawn timer can call back, no monster
\* is listed or alive) when the scene is switched and ever after.
C2_GameOverOnce ==
    /\ playerHealth > 0 => events = <<>>
    /\ playerHealth <= 0 =>
          /\ Len(events) = 2
          /\ events[1].op = "spawnManager.destroy"
          /\ events[2].op = "scene.start"
          /\ ~events[2].spawning
          /\ ~SpawningActive(Game)
          /\ \A id \in DOMAIN mon : ~mon[id].isAlive

\* the player was defeated while two goblins were about; the second one was
\* unhurt and is not alive any more
C2_Witness_DefeatedAmongTwo ==
    /\ playerHealth <= 0
    /\ Len(mon) >= 2
    /\ mon[2].currentHealth = mon[2].config.maxHealth
    /\ ~mon[2].isAlive
    /\ phase = "updated"


\* a step of Game.update
UpdateStep == phase = "engine" /\ phase' = "updated"

\* the square of the distance between two sprites
Dist2(a, b) == (a.x - b.x) * (a.x - b.x) + (a.y - b.y) * (a.y - b.y)

\* C13: what a step of Game.update leaves shows the order movement, attacks,
\* SpawnManager.update, combat resolution.  A slash fired in the step faces
\* the way the player moves in this step and has already damaged every
\* listed alive monster within hitRange of it; the live set was pruned
\* before combat resolution (the dead of earlier ticks are gone, the killed
\* of this tick still listed); a monster damaged in the step flies off with
\* the knockback, which replaced the seek velocity set earlier in the step,
\* and every other listed monster seeks the player.
C13_UpdateOrder ==
    [][UpdateStep =>
        LET fired == Len(slashes') > Len(slashes)
            s == Len(slashes')
        IN  /\ fired =>
                  /\ player'.vx # 0 =>
                        slashes'[s].dir = [x |-> player'.vx \div PLAYER_SPEED,
                                           y |-> 0]
                  /\ \A id \in Listed :
                        (/\ mon[id].isAlive
                         /\ mon[id].active
                         /\ Dist2(slashes'[s], mon[id]) < hitRange * hitRange)
                        => mon'[id].currentHealth < mon[id].currentHealth
            /\ \A id \in Listed :
                  /\ id \in {sm'.monsters[i] : i \in DOMAIN sm'.monsters}
                        <=> mon[id].isAlive
                  /\ (mon[id].isAlive /\ Dist2(mon[id], player) > 0) =>
                        mon'[id].vel =
                            IF mon'[id].currentHealth < mon[id].currentHealth
                            THEN [dx |-> mon[id].x - player.x,
                                  dy |-> mon[id].y - player.y,
                                  speed |-> mon[id].config.knockbackForce]
                            ELSE [dx |-> player.x - mon[id].x,
                                  dy |-> player.y - mon[id].y,
                                  speed |-> mon[id].config.speed]]_vars

\* C13 witness: Game.update has just fired a slash and that slash has hit a
\* goblin in the same tick, which now has the knockback velocity.
C13_Witness_HitInTheTickOfFiring ==
    /\ phase = "updated"
    /\ \E h \in DOMAIN hitLog :
          /\ hitLog[h].time = now
          /\ slashes[hitLog[h].slash].active
          /\ slashes[hitLog[h].slash].born = now
          /\ mon[hitLog[h].monster].vel.speed
                = mon[hitLog[h].monster].config.knockbackForce


\* the hits logged for monster id
HitsOf(log, id) == {h \in DOMAIN log : log[h].monster = id}

\* C14: damage on a monster that is not alive is a no-op.  takeDamage
\* returns such a monster as it is (currentHealth, velocity, isAlive and the
\* death tween running, if any); a pass of combat resolution leaves it as it
\* is, also when that very pass or an earlier pass of the tick killed it;
\* and no step changes its currentHealth or velocity, revives it, restarts
\* its death tween or logs a hit on it.
C14_DamageOnDeadIsNoOp ==
    /\ [](\A id \in DOMAIN mon :
            /\ ~mon[id].isAlive =>
                  /\ takeDamage(mon[id], AXE_HACK_CONFIG.damage, player, now)
                        = mon[id]
                  /\ checkAttackCollisions(Game, now).mon[id] = mon[id]
            /\ LET g1 == checkAttackCollisions(Game, now) IN
               ~g1.mon[id].isAlive =>
                  /\ checkAttackCollisions(g1, now).mon[id] = g1.mon[id]
                  /\ HitsOf(checkAttackCollisions(g1, now).hitLog, id)
                        = HitsOf(g1.hitLog, id))
    /\ [][\A id \in DOMAIN mon :
            ~mon[id].isAlive =>
                /\ mon'[id].currentHealth = mon[id].currentHealth
                /\ mon'[id].vel = mon[id].vel
                /\ ~mon'[id].isAlive
                /\ mon'[id].deathDue \in {mon[id].deathDue, -1}
                /\ HitsOf(hitLog', id) = HitsOf(hitLog, id)]_vars

\* C14 witness: Game.update has killed a goblin; it is in its death tween,
\* still listed and still within hitRange of the live slash, so a further
\* pass of combat resolution visits it.
C14_Witness_DyingInRange ==
    /\ phase = "updated"
    /\ \E id \in Listed, i \in DOMAIN attack.activeAttacks :
          /\ ~mon[id].isAlive
          /\ mon[id].active
          /\ mon[id].deathDue > now
          /\ slashes[attack.activeAttacks[i]].active
          /\ Dist2(slashes[attack.activeAttacks[i]], mon[id])
                < hitRange * hitRange


\* C15: canDealDamage on a monster that is not alive is a no-op: it returns
\* false and leaves the monster (lastAttackTime included) as it is.
C15_GateOnDeadIsNoOp ==
    \A id \in DOMAIN mon :
        ~mon[id].isAlive =>
            canDealDamage(mon[id], now) = [ok |-> FALSE, m |-> mon[id]]

\* C16: a canDealDamage(t) call returns true iff t - lastAttackTime >=
\* attackCooldown; a call that returns true changes lastAttackTime to t and
\* nothing else, a call that returns false changes nothing.
C16_GateFrame ==
    [][Len(gateLog') > Len(gateLog) =>
        LET e == gateLog'[Len(gateLog')]
            m == mon[e.id]
        IN  /\ e.time = now
            /\ e.ok <=> (now - m.lastAttackTime >= m.config.attackCooldown)
            /\ e.ok => mon' = [mon EXCEPT ![e.id].lastAttackTime = now]
            /\ ~e.ok => mon' = mon
            /\ UNCHANGED <<now, player, posVars, spawnVars, gameVars>>]_vars

\* C16 witness: a call made exactly attackCooldown after the last stamp was
\* let through and stamped, and a call was refused.
C16_Witness_GateAtTheBoundary ==
    \E i, j \in DOMAIN gateLog :
        /\ gateLog[i].ok
        /\ gateLog[i].time = mon[gateLog[i].id].config.attackCooldown
        /\ mon[gateLog[i].id].lastAttackTime = gateLog[i].time
        /\ ~gateLog[j].ok


\* the timers of destroyAttackAfterDuration, in the order of their creation
DestroyAttackTimers(ts) ==
    SelectSeq(ts, LAMBDA t : t.cb.kind = "destroyAttack")

\* C17: in a step of Game.update the attack fires iff now - lastAttackTime
\* >= interval.  Firing creates exactly one slash, appends it to
\* activeAttacks, registers its duration timer and sets lastAttackTime =
\* now; not firing leaves lastAttackTime, activeAttacks, the slashes and the
\* timers as they are.  Two consecutive fires are at least interval apart.
C17_AttackFires ==
    /\ [][UpdateStep =>
            IF now - attack.lastAttackTime >= AXE_HACK_CONFIG.interval
            THEN /\ Len(slashes') = Len(slashes) + 1
                 /\ slashes'[Len(slashes')].born = now
                 /\ slashes'[Len(slashes')].active
                 /\ attack'.activeAttacks
                       = Append(attack.activeAttacks, Len(slashes'))
                 /\ attack'.lastAttackTime = now
                 /\ Len(timers') = Len(timers) + 1
                 /\ timers'[Len(timers')].cb
                       = [kind |-> "destroyAttack", slash |-> Len(slashes')]
            ELSE /\ Len(slashes') = Len(slashes)
                 /\ attack'.activeAttacks = attack.activeAttacks
                 /\ attack'.lastAttackTime = attack.lastAttackTime
                 /\ timers' = timers]_vars
    /\ [](LET d == DestroyAttackTimers(timers) IN
          \A i \in DOMAIN d :
              /\ d[i].cb.slash = i
              /\ i > 1 => d[i].due - d[i - 1].due >= AXE_HACK_CONFIG.interval)

\* C17 witness: the attack has just fired for the second time.
C17_Witness_SecondFire ==
    /\ phase = "updated"
    /\ Len(slashes) = 2
    /\ attack.lastAttackTime = now
    /\ slashes[2].born = now


\* the slashes of activeAttacks
ActiveSet == {attack.activeAttacks[i] : i \in DOMAIN attack.activeAttacks}

\* C18: a slash is in activeAttacks, once, from its creation until its
\* duration timer fires: it is listed iff that timer is still live, and
\* then it is an active sprite.  The firing of the timer removes that slash
\* and leaves the other entries and their order as they are (also in a list
\* of several entries).  Every hit of a slash falls between its creation
\* and the firing of its timer, and no step after the removal logs a hit of
\* it or lists it again.
C18_ActiveAttacksLifetime ==
    /\ [](/\ \A i, j \in DOMAIN attack.activeAttacks :
                attack.activeAttacks[i] = attack.activeAttacks[j] => i = j
          /\ \A t \in DOMAIN timers :
                timers[t].cb.kind = "destroyAttack" =>
                    LET s == timers[t].cb.slash IN
                    /\ timers[t].live <=> s \in ActiveSet
                    /\ timers[t].live <=> slashes[s].active
                    /\ timers[t].live =>
                          timers[t].due = slashes[s].born + AXE_HACK_CONFIG.duration
                    /\ \A h \in DOMAIN hitLog :
                          hitLog[h].slash = s =>
                              /\ hitLog[h].time >= timers[t].due
                                                     - AXE_HACK_CONFIG.duration
                              /\ hitLog[h].time < timers[t].due
          /\ \A s \in DOMAIN slashes :
                \E t \in DOMAIN timers :
                    timers[t].cb = [kind |-> "destroyAttack", slash |-> s]
          /\ \A s \in DOMAIN slashes :
                LET g == [Game EXCEPT !.attack.activeAttacks
                                          = <<Len(slashes) + 1>> \o @
                                                \o <<Len(slashes) + 2>>]
                IN  destroyAttackCallback(g, s).attack.activeAttacks
                      = <<Len(slashes) + 1>>
                           \o SelectSeq(attack.activeAttacks, LAMBDA i : i # s)
                           \o <<Len(slashes) + 2>>)
    /\ [][\A s \in DOMAIN slashes :
            /\ (s \in ActiveSet /\ s \notin ActiveSet') =>
                  /\ \E t \in DOMAIN timers :
                        /\ timers[t].cb = [kind |-> "destroyAttack", slash |-> s]
                        /\ timers[t].live
                        /\ timers[t].due <= now
                        /\ ~timers'[t].live
                  /\ attack'.activeAttacks
                        = SelectSeq(attack.activeAttacks, LAMBDA i : i # s)
            /\ s \notin ActiveSet =>
                  /\ s \notin ActiveSet'
                  /\ \A h \in DOMAIN hitLog' :
                        hitLog'[h].slash = s => h \in DOMAIN hitLog]_vars

\* C18 witness: a slash that hit a goblin has been removed by its duration
\* timer, and Game.update has run combat resolution since.
C18_Witness_RemovedAfterHit ==
    /\ phase = "updated"
    /\ \E h \in DOMAIN hitLog :
          /\ ~slashes[hitLog[h].slash].active
          /\ hitLog[h].slash \notin ActiveSet


\* the index of id in a list without duplicates
IndexOf(list, id) == CHOOSE i \in DOMAIN list : list[i] = id

\* C19: SpawnManager.update() on a live set holding the monsters in any
\* order keeps exactly the alive ones, once each and in their relative
\* order, gives each of them the velocity towards the player, and leaves
\* the monsters that are not alive and everything else as they are; the
\* live set it leaves holds alive monsters only.
C19_UpdateFilterAndKeep ==
    \A list \in Permutations(DOMAIN mon) :
        LET g == [Game EXCEPT !.sm.monsters = list]
            u == SpawnManagerUpdate(g)
            kept == u.sm.monsters
        IN  /\ {kept[i] : i \in DOMAIN kept}
                  = {id \in DOMAIN mon : mon[id].isAlive}
            /\ \A i, j \in DOMAIN kept :
                  i < j => IndexOf(list, kept[i]) < IndexOf(list, kept[j])
            /\ \A i \in DOMAIN kept : u.mon[kept[i]].isAlive
            /\ \A id \in DOMAIN mon :
                  u.mon[id] = IF mon[id].isAlive /\ mon[id].active
                              THEN moveTowardsTarget(mon[id], player)
                              ELSE mon[id]
            /\ u = [g EXCEPT !.sm.monsters = kept, !.mon = u.mon]

\* C19 witness: Game.update has pruned the first goblin, killed in the tick
\* before and still in its death tween, and kept the second, which seeks
\* the player.
C19_Witness_PrunedAndKept ==
    /\ phase = "updated"
    /\ Len(mon) = 2
    /\ sm.monsters = <<2>>
    /\ ~mon[1].isAlive
    /\ mon[1].deathDue > now
    /\ mon[2].isAlive
    /\ mon[2].vel = [dx |-> player.x - mon[2].x, dy |-> player.y - mon[2].y,
                     speed |-> mon[2].config.speed]


\* a step that is a spawnMonster call of the client
SpawnMonsterStep ==
    /\ apiCalls' = apiCalls + 1
    /\ "call" \in DOMAIN lastSpawn'
    /\ lastSpawn'.call = apiCalls'

\* C20: a spawnMonster call with an unknown type returns null and leaves
\* the monsters, the live set, the collision group and the timers as they
\* are; a call with a known type constructs exactly one monster, alive, with
\* currentHealth = maxHealth of its merged config, at the position drawn,
\* appends it to the live set, adds it to the collision group and returns it.
C20_SpawnMonster ==
    [][SpawnMonsterStep =>
        IF lastSpawn'.type = "goblin"
        THEN LET id == Len(mon) + 1 IN
             /\ lastSpawn'.returned = [monster |-> id]
             /\ Len(mon') = id
             /\ \A i \in DOMAIN mon : mon'[i] = mon[i]
             /\ mon'[id].isAlive
             /\ mon'[id].active
             /\ mon'[id].config
                   = Merge(DEFAULT_GOBLIN_CONFIG, lastSpawn'.config)
             /\ mon'[id].currentHealth = mon'[id].config.maxHealth
             /\ mon'[id].x = lastSpawn'.x
             /\ mon'[id].y = lastSpawn'.y
             /\ sm' = [sm EXCEPT !.monsters = Append(@, id),
                                 !.monsterGroup = @ \cup {id}]
             /\ id \notin sm.monsterGroup
             /\ timers' = timers
        ELSE /\ lastSpawn'.returned = Null
             /\ mon' = mon
             /\ sm' = sm
             /\ timers' = timers]_vars

\* C20 witness: a goblin was spawned by a first call, and a second call
\* with the unknown type returned null; the goblin is the only monster.
C20_Witness_UnknownAfterKnown ==
    /\ "call" \in DOMAIN lastSpawn
    /\ lastSpawn.type = "orc"
    /\ lastSpawn.returned = Null
    /\ lastSpawn.call = 2
    /\ Len(mon) = 1
    /\ sm.monsters = <<1>>
    /\ sm.monsterGroup = {1}
    /\ mon[1].currentHealth = 40


\* the velocity vectors along the axes, one per direction
AxisVelocities ==
    {[x |-> PLAYER_SPEED, y |-> 0], [x |-> -PLAYER_SPEED, y |-> 0],
     [x |-> 0, y |-> PLAYER_SPEED], [x |-> 0, y |-> -PLAYER_SPEED]}

\* C21: updateDirection with the zero vector leaves the attack as it is,
\* and with a nonzero vector sets currentDirection to the unit vector of
\* that vector and nothing else.  So currentDirection is always the
\* direction of the most recent nonzero movement of the player, (1, 0)
\* while the player has never moved; only Game.update changes it; and a
\* slash fired by a step of Game.update is created facing that direction,
\* offsetDistance from the player along it.
C21_FacingFollowsLastMove ==
    /\ [](/\ updateDirection(attack, 0, 0) = attack
          /\ \A v \in AxisVelocities :
                updateDirection(attack, v.x, v.y)
                    = [attack EXCEPT !.currentDirection =
                          [x |-> v.x \div PLAYER_SPEED,
                           y |-> v.y \div PLAYER_SPEED]]
          /\ attack.currentDirection = lastMove)
    /\ [][/\ ~UpdateStep => attack'.currentDirection = attack.currentDirection
          /\ (UpdateStep /\ player'.vx = 0 /\ player'.vy = 0) =>
                attack'.currentDirection = attack.currentDirection
          /\ (UpdateStep /\ Len(slashes') > Len(slashes)) =>
                LET sl == slashes'[Len(slashes')] IN
                /\ sl.dir = lastMove'
                /\ sl.x = player.x + lastMove'.x * AXE_HACK_CONFIG.offsetDistance
                /\ sl.y = player.y + lastMove'.y * AXE_HACK_CONFIG.offsetDistance]_vars

\* C21 witness: the attack has just fired to the left while the player
\* stands still, having walked to the left last, after walking to the right.
C21_Witness_FiresWhereLastWalked ==
    /\ phase = "updated"
    /\ player.vx = 0
    /\ player.x = InitPlayer.x
    /\ lastMove = [x |-> -1, y |-> 0]
    /\ attack.lastAttackTime = now
    /\ slashes[Len(slashes)].born = now
    /\ slashes[Len(slashes)].dir = [x |-> -1, y |-> 0]


\* whether canDealDamage(now) would return true for monster id
GateOpen(id) == now - mon[id].lastAttackTime >= mon[id].config.attackCooldown

\* C22: playerHealth changes only in the overlap callback, for a monster
\* that is alive and whose canDealDamage(now) returns true, and then drops
\* by exactly the damage of that monster (which the gate stamps with now).
\* The callback for a monster that is not alive or still on cooldown (as a
\* monster stamped less than attackCooldown ago would be) leaves
\* playerHealth, and the whole game, as it is.
C22_PlayerHealthChanges ==
    /\ [](\A id \in DOMAIN mon :
            /\ LET g1 == handleMonsterPlayerCollision(Game, id, now) IN
               IF mon[id].isAlive /\ GateOpen(id)
               THEN /\ g1.playerHealth = playerHealth - mon[id].config.damage
                    /\ g1.mon[id].lastAttackTime = now
               ELSE g1 = Game
            /\ \A t \in {now, now - mon[id].config.attackCooldown + 1} :
                  LET g0 == [Game EXCEPT !.mon[id].lastAttackTime = t] IN
                  handleMonsterPlayerCollision(g0, id, now) = g0)
    /\ [][playerHealth' # playerHealth =>
            /\ Overlap
            /\ \E id \in DOMAIN mon :
                  /\ mon[id].isAlive
                  /\ GateOpen(id)
                  /\ mon'[id].lastAttackTime = now
                  /\ playerHealth' = playerHealth - mon[id].config.damage]_vars

\* C22 witness: a goblin has just damaged the player, by its damage of 10,
\* in a frame in which another goblin, killed by the attack, is not alive
\* and has its cooldown elapsed; the physics world may report overlaps with
\* both next.
C22_Witness_HurtWithDeadAround ==
    /\ phase = "engine"
    /\ playerHealth = PLAYER_STARTING_HEALTH - DEFAULT_GOBLIN_CONFIG.damage
    /\ \E id, d \in DOMAIN mon :
          /\ mon[id].lastAttackTime = now
          /\ d # id
          /\ ~mon[d].isAlive
          /\ Cardinality(HitsOf(hitLog, d)) >= 2
          /\ GateOpen(d)


\* the velocity moveTowardsTarget gives monster m, the player at p
SeekVelocity(m, p) ==
    [dx |-> p.x - m.x, dy |-> p.y - m.y, speed |-> m.config.speed]

\* the velocity applyKnockback gives monster m, the player at p
KnockbackVelocity(m, p) ==
    [dx |-> m.x - p.x, dy |-> m.y - p.y, speed |-> m.config.knockbackForce]

\* whether checkAttackCollisions damaged monster id at clock value time
DamagedAt(id, time) ==
    \E h \in HitsOf(hitLog, id) : hitLog[h].time = time

\* C23: an alive monster, not at the position of the player, that combat
\* resolution damages leaves Game.update with the knockback velocity (away
\* from the player, of magnitude knockbackForce) and not with the seek
\* velocity that SpawnManager.update gave it earlier in the step.  If it
\* survived, the SpawnManager.update of the next step gives it the seek
\* velocity again.  So after a step of Game.update an alive listed monster
\* has the knockback velocity exactly when it was damaged in that step, and
\* the seek velocity otherwise: each knockback moves it for one frame.
C23_KnockbackForOneTick ==
    /\ [][UpdateStep =>
            \A id \in Listed :
                (/\ mon[id].isAlive
                 /\ Dist2(mon[id], player) > 0
                 /\ mon'[id].currentHealth < mon[id].currentHealth)
                => /\ mon'[id].vel = KnockbackVelocity(mon[id], player)
                   /\ mon'[id].vel # SeekVelocity(mon[id], player)]_vars
    /\ [](\A id \in Listed :
            (mon[id].isAlive /\ Dist2(mon[id], player) > 0) =>
                /\ SpawnManagerUpdate(Game).mon[id].vel
                      = SeekVelocity(mon[id], player)
                /\ phase = "updated" =>
                      mon[id].vel = IF DamagedAt(id, now)
                                    THEN KnockbackVelocity(mon[id], player)
                                    ELSE SeekVelocity(mon[id], player))

\* C23 witness: a goblin damaged in the step of the frame before survived,
\* was carried off by the knockback during the frame, and the step of this
\* frame, which did not damage it, has given it the seek velocity again.
C23_Witness_SeeksAgain ==
    /\ phase = "updated"
    /\ \E id \in Listed :
          /\ mon[id].isAlive
          /\ DamagedAt(id, now - FrameDelta)
          /\ ~DamagedAt(id, now)
          /\ mon[id].vel = SeekVelocity(mon[id], player)
          /\ Dist2(mon[id], player) > 0


\* the monsters getMonsters() returns after the step
ListedAfter == {sm'.monsters[i] : i \in DOMAIN sm'.monsters}

\* C24: a monster that is not alive is in the list of getMonsters() only
\* from the combat resolution that killed it until the SpawnManager.update
\* of the next tick.  A listed monster that is not alive was killed by the
\* combat resolution of this tick (seen after Game.update) or of the tick
\* before (seen before Game.update); a step of Game.update leaves no
\* monster listed that was not alive before it, and those it leaves listed
\* and not alive it has killed itself; SpawnManager.update applied to any
\* reachable game leaves only alive monsters listed.
C24_DeadListedForOneTick ==
    /\ [](/\ \A id \in Listed :
                ~mon[id].isAlive =>
                    /\ mon[id].currentHealth <= 0
                    /\ mon[id].deathDue = DeathTweenDuration
                          + (IF phase = "updated" THEN now ELSE now - FrameDelta)
                    /\ DamagedAt(id, mon[id].deathDue - DeathTweenDuration)
          /\ LET g1 == SpawnManagerUpdate(Game) IN
             \A i \in DOMAIN g1.sm.monsters : mon[g1.sm.monsters[i]].isAlive)
    /\ [][UpdateStep =>
            \A id \in DOMAIN mon :
                /\ ~mon[id].isAlive => id \notin ListedAfter
                /\ (id \in ListedAfter /\ ~mon'[id].isAlive) =>
                      /\ id \in Listed
                      /\ mon[id].isAlive
                      /\ mon'[id].currentHealth < mon[id].currentHealth]_vars

\* C24 witness: a goblin killed by the combat resolution of the tick before
\* is still in its death tween, the session goes on, and the step of
\* Game.update of this tick has left it out of the list while another
\* goblin is listed.
C24_Witness_PrunedTheTickAfter ==
    /\ phase = "updated"
    /\ events = <<>>
    /\ Listed # {}
    /\ \E id \in DOMAIN mon :
          /\ ~mon[id].isAlive
          /\ id \notin Listed
          /\ mon[id].deathDue = now - FrameDelta + DeathTweenDuration
          /\ DamagedAt(id, now - FrameDelta)


\* C25: with duration 400 below interval 2000 and the removal timers on
\* the clock of the ticks, activeAttacks holds at most one slash in every
\* state.  The slash it holds is the one fired last, is active, is at most
\* duration old and has its removal timer pending, due duration after the
\* fire, which is before the next fire (interval after it).
C25_AtMostOneActiveAttack ==
    /\ Len(attack.activeAttacks) <= 1
    /\ \A i \in DOMAIN attack.activeAttacks :
          LET s == attack.activeAttacks[i] IN
          /\ s = Len(slashes)
          /\ slashes[s].active
          /\ slashes[s].born = attack.lastAttackTime
          /\ now - slashes[s].born <= AXE_HACK_CONFIG.duration
          /\ \E t \in DOMAIN timers :
                /\ timers[t].live
                /\ timers[t].cb = [kind |-> "destroyAttack", slash |-> s]
                /\ timers[t].due = slashes[s].born + AXE_HACK_CONFIG.duration
                /\ timers[t].due
                      < attack.lastAttackTime + AXE_HACK_CONFIG.interval

\* C25 witness: the second slash is the only entry of activeAttacks, the
\* first one having been removed by its timer long before the second fire.
C25_Witness_SecondSlashAlone ==
    /\ attack.activeAttacks = <<2>>
    /\ slashes[2].active
    /\ ~slashes[1].active
    /\ slashes[2].born = 2 * AXE_HACK_CONFIG.interval


\* the clock values below d at which a frame can run, and the last one
\* below d
TimesBelow(d) ==
    {k * FrameDelta : k \in 0 .. ((d - 1) \div FrameDelta)} \cup {d - 1}

\* C26: the cooldowns count from clock value 0, the initial lastAttackTime,
\* and not from creation.  The attack fires in no step of Game.update at a
\* time below interval and fires in the first one at or after it.  Every
\* goblin of the scene is spawned at or after attackCooldown, and an
\* overlap of an alive goblin that has never dealt damage damages the
\* player at once, also in the very frame of its spawn.  No monster, and no
\* goblin just constructed, passes canDealDamage at a time below its
\* attackCooldown, so a contact then deals no damage.
C26_CooldownsCountFromZero ==
    /\ [](/\ \A s \in DOMAIN slashes :
                slashes[s].active => slashes[s].born >= AXE_HACK_CONFIG.interval
          /\ LET d == DestroyAttackTimers(timers) IN
             \A i \in DOMAIN d :
                d[i].due - d[i].delay >= AXE_HACK_CONFIG.interval
          /\ mon # <<>> => now >= DEFAULT_GOBLIN_CONFIG.attackCooldown
          /\ \A id \in DOMAIN mon :
                /\ mon[id].lastAttackTime >= 0
                /\ (mon[id].isAlive /\ mon[id].lastAttackTime = 0) =>
                      handleMonsterPlayerCollision(Game, id, now).playerHealth
                          = playerHealth - mon[id].config.damage
                /\ \A t \in TimesBelow(mon[id].config.attackCooldown) :
                      ~canDealDamage(mon[id], t).ok
                /\ handleMonsterPlayerCollision(
                       Game, id, mon[id].config.attackCooldown - 1).playerHealth
                      = playerHealth
          /\ \A t \in TimesBelow(DEFAULT_GOBLIN_CONFIG.attackCooldown) :
                canDealDamage(Goblin(player.x, player.y, <<>>), t)
                    = [ok |-> FALSE, m |-> Goblin(player.x, player.y, <<>>)])
    /\ [][UpdateStep =>
            /\ now < AXE_HACK_CONFIG.interval =>
                  /\ slashes' = <<>>
                  /\ attack'.lastAttackTime = 0
            /\ (now >= AXE_HACK_CONFIG.interval /\ slashes = <<>>) =>
                  /\ Len(slashes') = 1
                  /\ slashes'[1].born = now
                  /\ attack'.lastAttackTime = now]_vars
    /\ [][Len(mon') > Len(mon) =>
            LET id == Len(mon') IN
            /\ mon'[id].lastAttackTime = 0
            /\ now >= mon'[id].config.attackCooldown
            /\ canDealDamage(mon'[id], now).ok]_vars

\* C26 witness: the first slash was fired in the tick of clock value 2000
\* (its removal timer was due at 2400), and the first goblin, spawned in
\* this frame at 5000, has damaged the player in the frame of its spawn.
C26_Witness_NoWarmUp ==
    /\ now = GOBLINS_SPAWN.interval
    /\ Len(mon) = 1
    /\ mon[1].lastAttackTime = now
    /\ playerHealth = PLAYER_STARTING_HEALTH - mon[1].config.damage
    /\ \E t \in DOMAIN timers :
          /\ timers[t].cb = [kind |-> "destroyAttack", slash |-> 1]
          /\ timers[t].due = AXE_HACK_CONFIG.interval + AXE_HACK_CONFIG.duration

=============================================================================
